---- MODULE Spec2Model ----
(***************************************************************************)
(* Trade coordinator (src/bot.ts) and subscription layer                   *)
(* (src/listeners/listeners.ts) of the trading bot.                        *)
(*                                                                         *)
(* The program runs on a cooperative single-threaded scheduler: the code   *)
(* between two `await`s is one atomic step.  Every invocation of buy(),    *)
(* sell() or of the start-up start(config) occupies a slot p; pc[p] is the *)
(* await at which the invocation is suspended.                             *)
(***************************************************************************)
EXTENDS Integers, Sequences, FiniteSets, Bags, TLC

\* ---- bounds ----
NumProcs == 2       \* invocations that can be in flight at the same time
MaxRetries == 2     \* largest value of maxBuyRetries / maxSellRetries
MaxSubs == 4        \* cap on the live upstream subscriptions
MaxAmount == 3      \* largest token amount and pool reserve
MaxInner == 2       \* most instructions of the inner swap transaction
MaxFile == 3        \* most characters of avoid-list.txt before the cache exists
MaxNote == 2        \* most characters of a note
MaxEndpoints == 3   \* most entries of the endpoint pool
MaxDuration == 4    \* largest check duration and check interval
MaxMatch == 2       \* largest consecutiveMatchCount

Procs == 1..NumProcs
Mints == {<<"A">>, <<"B">>, <<"C">>}   \* addresses are tuples of characters
NoMint == <<>>
Outcomes == {"empty", "confirmed", "unconfirmed", "error"}
NoConfig == [none |-> TRUE]
NoKind == "none"
NoResult == <<"none", "none">>

VARIABLES
  cfg,                \* BotConfig and the ListenerConfig handed to start()
  faults,             \* may subscribe / unsubscribe calls fail
  snipeList,          \* SnipeListCache.snipeList
  avoidList,          \* AvoidListCache.avoidList (entries)
  CONFIG,             \* Listeners.CONFIG
  subscriptions,      \* Listeners.subscriptions: handles, each with its upstream state
  orphans,            \* live upstream subscriptions whose handle is in no list
  mutexLocked,        \* Bot.mutex.isLocked()
  sellExecutionCount, \* Bot.sellExecutionCount
  pc, kind,           \* position and operation of each invocation
  mint, hasMarket,    \* poolState.baseMint, poolState.marketId present
  acquiredMutex, listenersStopped, i,   \* locals of buy() / sell()
  outcomes,           \* results of the swap() calls of the invocation
  stopClears,         \* the pending stop() saw a non-empty list
  stopWaits,          \* the pending stop() unsubscribed a live handle
  stopFailed,         \* a removal of the pending stop() failed
  stQueue, stPend,    \* start(): kinds still to subscribe, kind awaiting push
  calledStart, releases, \* the invocation called listeners.start(); mutex.release() calls
  lastResult,         \* the call the invocation awaited last, and how it ended
  txExecutor,         \* the class of Bot.txExecutor
  swapCall,           \* the call of Bot.swap() in progress
  avoidFile,          \* the contents of avoid-list.txt
  avoidOp,            \* the last operation on the AvoidListCache
  connPool,           \* CustomConnection: pool size, lastIndex, connection
  executor,           \* DefaultTransactionExecutor: connection, call in progress
  priceCall,          \* the call of Bot.priceMatch() in progress
  filterCall,         \* the call of Bot.filterMatch() in progress
  pumpCall            \* the call of PumpFunFilter.execute() in progress

shared == <<cfg, faults, snipeList, avoidList, CONFIG, subscriptions, orphans,
            mutexLocked, sellExecutionCount>>
locals == <<pc, kind, mint, hasMarket, acquiredMutex, listenersStopped, i,
            outcomes, stopClears, stopWaits, stopFailed, stQueue, stPend, calledStart, releases,
            lastResult>>
ext == <<connPool, executor, priceCall, filterCall, pumpCall>>
aux == <<txExecutor, swapCall, avoidFile, avoidOp, ext>>
vars == <<shared, locals, aux>>

\* ---- strings ----
\* A string is the tuple of its characters.
NL == "\n"
Comma == ","
Quote == "\""
Backslash == "\\"
Space == " "
Whitespace == {Space, NL}
Strings(A, n) == UNION {[1..k -> A] : k \in 0..n}

\* String.prototype.split with a one-character separator
RECURSIVE Split(_, _)
Split(s, c) ==
  IF \A k \in 1..Len(s) : s[k] # c
    THEN <<s>>
    ELSE LET k == CHOOSE j \in 1..Len(s) : s[j] = c /\ \A m \in 1..(j - 1) : s[m] # c
         IN <<SubSeq(s, 1, k - 1)>> \o Split(SubSeq(s, k + 1, Len(s)), c)

\* Array.prototype.join
RECURSIVE Join(_, _)
Join(parts, c) ==
  IF parts = <<>> THEN <<>>
  ELSE IF Len(parts) = 1 THEN parts[1]
  ELSE parts[1] \o <<c>> \o Join(Tail(parts), c)

\* String.prototype.trim
RECURSIVE Trim(_)
Trim(s) ==
  IF s = <<>> THEN s
  ELSE IF s[1] \in Whitespace THEN Trim(Tail(s))
  ELSE IF s[Len(s)] \in Whitespace THEN Trim(SubSeq(s, 1, Len(s) - 1))
  ELSE s

\* the characters of a string literal of JSON.stringify
RECURSIVE Escape(_)
Escape(s) ==
  IF s = <<>> THEN <<>>
  ELSE (CASE s[1] = Quote -> <<Backslash, Quote>>
          [] s[1] = Backslash -> <<Backslash, Backslash>>
          [] s[1] = NL -> <<Backslash, "n">>
          [] OTHER -> <<s[1]>>) \o Escape(Tail(s))

\* JSON.stringify that only adds the quotes
JsonStringifyUnescaped(s) == <<Quote>> \o s \o <<Quote>>
\* JSON.stringify of a string
JsonStringify(s) == <<Quote>> \o Escape(s) \o <<Quote>>

\* the body of a string literal decoded, or Invalid: a bare quote, a raw
\* line feed and an unknown escape are syntax errors (of the escapes of
\* JSON only \" \\ and \n can be written with the characters used here)
Invalid == <<"SyntaxError">>
RECURSIVE Unescape(_)
Unescape(s) ==
  IF s = <<>> THEN <<>>
  ELSE IF s[1] \in {Quote, NL} THEN Invalid
  ELSE IF s[1] = Backslash
    THEN IF Len(s) < 2 \/ s[2] \notin {Quote, Backslash, "n"}
           THEN Invalid
           ELSE LET rest == Unescape(SubSeq(s, 3, Len(s)))
                IN IF rest = Invalid THEN Invalid
                   ELSE <<IF s[2] = "n" THEN NL ELSE s[2]>> \o rest
    ELSE LET rest == Unescape(Tail(s))
         IN IF rest = Invalid THEN Invalid ELSE <<s[1]>> \o rest

\* JSON.parse: the text is a string literal, or parsing throws (no number,
\* literal name, array or object can be written with the characters used)
JsonParse(text) ==
  LET t == Trim(text)
  IN IF Len(t) >= 2 /\ t[1] = Quote /\ t[Len(t)] = Quote
       THEN Unescape(SubSeq(t, 2, Len(t) - 1))
       ELSE Invalid

\* ---- AvoidListCache ----
NoNote == <<"undefined">>
Entry(address, note) == [address |-> address, note |-> note]
InList(list, a) == \E k \in 1..Len(list) : list[k].address = a
IsInList(a) == InList(avoidList, a)

\* one line of the file
ParseLine(line) ==
  LET parts == Split(line, Comma)
      address == Head(parts)
      rest == Tail(parts)
  IN IF rest = <<>>
       THEN Entry(address, NoNote)
       ELSE LET raw == Trim(Join(rest, Comma))
                parsed == JsonParse(raw)
            IN Entry(Trim(address), IF parsed = Invalid THEN raw ELSE parsed)

NonEmpty(line) == line # <<>>
LoadAvoidList(data) ==
  LET lines == Split(data, NL)
      trimmed == [k \in 1..Len(lines) |-> Trim(lines[k])]
      kept == SelectSeq(trimmed, NonEmpty)
  IN [k \in 1..Len(kept) |-> ParseLine(kept[k])]

\* `note ? ... : address`: undefined and the empty string are falsy
Truthy(note) == note # NoNote /\ note # <<>>
Line(address, note) ==
  IF Truthy(note) THEN address \o <<Comma>> \o JsonStringify(note) ELSE address

\* add() that never finds the address
AddNeverSkips(address) == FALSE
\* `if (this.isInList(address)) { ...; return; }`
AddSkips(address) == IsInList(address)

botVars == <<cfg, faults, snipeList, CONFIG, subscriptions, orphans, mutexLocked,
             sellExecutionCount, locals, txExecutor, swapCall, ext>>

\* add(address, note)
AvoidAdd(address, note) ==
  /\ avoidOp' = [op |-> "add", address |-> address, skipped |-> AddSkips(address),
                 failed |-> FALSE, threw |-> FALSE]
  /\ IF AddSkips(address)
       THEN UNCHANGED <<avoidList, avoidFile>>
       ELSE /\ avoidList' = Append(avoidList, Entry(address, note))
            /\ avoidFile' = avoidFile \o Line(address, note) \o <<NL>>
  /\ UNCHANGED botVars

\* init() and the refresh timer
AvoidLoad ==
  /\ avoidList' = LoadAvoidList(avoidFile)
  /\ avoidOp' = [op |-> "load", address |-> <<>>, skipped |-> FALSE,
                 failed |-> FALSE, threw |-> FALSE]
  /\ UNCHANGED <<avoidFile, botVars>>

\* add(address, note) when appendFileSync throws: the entry was pushed
\* before the write, and nothing in add() catches the error
AvoidAddFails(address, note) ==
  /\ ~AddSkips(address)
  /\ avoidList' = Append(avoidList, Entry(address, note))
  /\ avoidOp' = [op |-> "add", address |-> address, skipped |-> FALSE,
                 failed |-> TRUE, threw |-> TRUE]
  /\ UNCHANGED <<avoidFile, botVars>>

\* the refresh timer fires and readFileSync throws (the file is missing or
\* unreadable): the assignment of the list is not reached, and nothing in
\* loadAvoidList or in the timer callback catches the error
AvoidReloadFails ==
  /\ avoidOp' = [op |-> "load", address |-> <<>>, skipped |-> FALSE,
                 failed |-> TRUE, threw |-> TRUE]
  /\ UNCHANGED <<avoidList, avoidFile, botVars>>

\* the cache after init() over the file
AvoidLoaded(data) ==
  /\ avoidFile = data
  /\ avoidList = LoadAvoidList(data)
  /\ avoidOp = [op |-> "load", address |-> <<>>, skipped |-> FALSE,
                 failed |-> FALSE, threw |-> FALSE]

\* ---- CustomConnection ----
\* A connection is named by the index of its endpoint; the fallback
\* endpoint has its own name.
NoIndex == 0 - 1
DefaultEndpoint == 0 - 2

\* an index drawn without looking at the last one
PickAnyIndex(n, last) == 0..(n - 1)
\* getRandomConnection: index 0 of a pool of one, otherwise an index drawn
\* until it differs from lastIndex
PickIndex(n, last) == IF n = 1 THEN {0} ELSE {x \in 0..(n - 1) : x # last}

\* the pool and the executor after their constructors
InitPool(Sizes) ==
  /\ \E n \in Sizes : \E x \in PickIndex(n, NoIndex) :
       /\ connPool = [n |-> n, lastIndex |-> x, connection |-> x,
                      op |-> "new", before |-> "new"]
       /\ executor = [connection |-> x, pc |-> "idle", used |-> NoIndex,
                      current |-> NoIndex, sent |-> FALSE, outcome |-> "none",
                      confirmed |-> FALSE, signature |-> FALSE]

Refreshed(pool, x) ==
  [pool EXCEPT !.lastIndex = x, !.connection = x, !.op = "refresh", !.before = pool.op]

\* customConnection.refreshConnection()
PoolRefresh ==
  /\ \E x \in PickIndex(connPool.n, connPool.lastIndex) :
       connPool' = Refreshed(connPool, x)
  /\ UNCHANGED <<shared, locals, txExecutor, swapCall, avoidFile, avoidOp,
                 executor, priceCall, filterCall, pumpCall>>

\* customConnection.refreshConnection(true)
PoolFallback ==
  /\ connPool' = [connPool EXCEPT !.connection = DefaultEndpoint,
                                  !.op = "fallback", !.before = connPool.op]
  /\ UNCHANGED <<shared, locals, txExecutor, swapCall, avoidFile, avoidOp,
                 executor, priceCall, filterCall, pumpCall>>

\* ---- DefaultTransactionExecutor ----
\* executor.refreshConnection()
ExecRefresh ==
  /\ \E x \in PickIndex(connPool.n, connPool.lastIndex) :
       /\ connPool' = Refreshed(connPool, x)
       /\ executor' = [executor EXCEPT !.connection = x]
  /\ UNCHANGED <<shared, locals, txExecutor, swapCall, avoidFile, avoidOp,
                 priceCall, filterCall, pumpCall>>

\* executeAndConfirm is called: sendRawTransaction goes out over
\* this.connection
ExecSend ==
  /\ executor.pc = "idle"
  /\ executor' = [executor EXCEPT !.pc = "sending", !.used = executor.connection,
                                  !.current = connPool.connection, !.sent = FALSE,
                                  !.outcome = "none", !.confirmed = FALSE,
                                  !.signature = FALSE]
  /\ UNCHANGED <<shared, locals, txExecutor, swapCall, avoidFile, avoidOp,
                 connPool, priceCall, filterCall, pumpCall>>

\* the send settles: it raises, or yields the signature and
\* confirmTransaction goes out over this.connection
ExecSent ==
  /\ executor.pc = "sending"
  /\ \E ok \in BOOLEAN :
       IF ok
         THEN executor' = [executor EXCEPT !.pc = "confirming", !.sent = TRUE,
                                           !.signature = TRUE,
                                           !.used = executor.connection,
                                           !.current = connPool.connection]
         ELSE executor' = [executor EXCEPT !.pc = "threw", !.outcome = "sendError"]
  /\ UNCHANGED <<shared, locals, txExecutor, swapCall, avoidFile, avoidOp,
                 connPool, priceCall, filterCall, pumpCall>>

\* confirmTransaction settles: the transaction was included without error
\* or with one, or the promise rejects (the block height passed
\* lastValidBlockHeight, or the request failed)
ConfirmOutcomes == {"included", "failed", "expired", "rpcError"}
ExecConfirmed ==
  /\ executor.pc = "confirming"
  /\ \E o \in ConfirmOutcomes :
       IF o \in {"included", "failed"}
         THEN executor' = [executor EXCEPT !.pc = "returned", !.outcome = o,
                                           !.confirmed = (o = "included")]
         ELSE executor' = [executor EXCEPT !.pc = "threw", !.outcome = o]
  /\ UNCHANGED <<shared, locals, txExecutor, swapCall, avoidFile, avoidOp,
                 connPool, priceCall, filterCall, pumpCall>>

\* the caller has the result or the exception
ExecSettled ==
  /\ executor.pc \in {"returned", "threw"}
  /\ executor' = [executor EXCEPT !.pc = "idle"]
  /\ UNCHANGED <<shared, locals, txExecutor, swapCall, avoidFile, avoidOp,
                 connPool, priceCall, filterCall, pumpCall>>

\* ---- Bot.priceMatch ----
NoQuote == 0 - 1
NoPrice ==
  [pc |-> "idle", duration |-> 0, interval |-> 0, timesChecked |-> 0,
   fetches |-> 0, sleeps |-> 0, raised |-> 0, trigger |-> 0, amountOut |-> NoQuote]

\* the targets, derived once from quoteAmount and the two percentages
QuoteAmount == 2
TakeProfitPercent == 50
StopLossPercent == 50
TakeProfitTarget == QuoteAmount + (QuoteAmount * TakeProfitPercent) \div 100
StopLossTarget == QuoteAmount - (QuoteAmount * StopLossPercent) \div 100
PriceOutputs == 0..(TakeProfitTarget + 1)

\* the watcher is off only when both knobs are zero
KnobsOffBoth(duration, interval) == duration = 0 /\ interval = 0
\* `priceCheckDuration === 0 || priceCheckInterval === 0`
KnobsOff(duration, interval) == duration = 0 \/ interval = 0

\* Math.floor(duration / interval); a division by zero is Infinity in the
\* code, more than any count
PriceTimesToCheck(duration, interval) ==
  IF interval = 0 THEN MaxDuration + 1 ELSE duration \div interval

\* amountOut.lt(stopLoss), amountOut.gt(takeProfit)
Triggers(amountOut) == amountOut < StopLossTarget \/ amountOut > TakeProfitTarget

\* the `finally` of an iteration and the loop condition: the next fetch is
\* requested or the loop is over
PriceNext(c) ==
  LET n == c.timesChecked + 1
  IN IF n < PriceTimesToCheck(c.duration, c.interval)
       THEN [c EXCEPT !.timesChecked = n, !.pc = "fetch", !.fetches = c.fetches + 1]
       ELSE [c EXCEPT !.timesChecked = n, !.pc = "returned"]

priceFrame == <<shared, locals, txExecutor, swapCall, avoidFile, avoidOp,
                connPool, executor, filterCall, pumpCall>>

\* sell() calls priceMatch: it returns at once when a knob is zero, and
\* otherwise requests the pool info of the first iteration
PriceCall ==
  /\ priceCall.pc = "idle"
  /\ \E d \in 0..MaxDuration, iv \in 0..MaxDuration :
       IF KnobsOff(d, iv)
         THEN priceCall' = [NoPrice EXCEPT !.pc = "returned", !.duration = d, !.interval = iv]
         ELSE priceCall' = [NoPrice EXCEPT !.pc = "fetch", !.duration = d, !.interval = iv,
                                            !.fetches = 1]
  /\ UNCHANGED priceFrame

\* Liquidity.fetchInfo settles: the iteration raises (caught and logged),
\* or the quote is outside the targets and the loop breaks, or the
\* iteration sleeps
PriceFetched ==
  /\ priceCall.pc = "fetch"
  /\ \/ priceCall' = [PriceNext(priceCall) EXCEPT !.raised = priceCall.raised + 1]
     \/ \E out \in PriceOutputs :
          IF Triggers(out)
            THEN priceCall' = [priceCall EXCEPT !.amountOut = out,
                                                !.trigger = priceCall.timesChecked + 1,
                                                !.timesChecked = priceCall.timesChecked + 1,
                                                !.pc = "returned"]
            ELSE priceCall' = [priceCall EXCEPT !.amountOut = out, !.pc = "sleep",
                                                !.sleeps = priceCall.sleeps + 1]
  /\ UNCHANGED priceFrame

\* the sleep of the iteration is over
PriceWoke ==
  /\ priceCall.pc = "sleep"
  /\ priceCall' = PriceNext(priceCall)
  /\ UNCHANGED priceFrame

\* priceMatch returns; sell() enters the loop of the swap attempts
PriceReturned ==
  /\ priceCall.pc = "returned"
  /\ priceCall' = [priceCall EXCEPT !.pc = "swap"]
  /\ UNCHANGED priceFrame

\* the sell is over
PriceSettled ==
  /\ priceCall.pc = "swap"
  /\ priceCall' = NoPrice
  /\ UNCHANGED priceFrame

\* ---- Bot.filterMatch ----
NoFilter ==
  [pc |-> "idle", duration |-> 0, interval |-> 0, count |-> 1, timesChecked |-> 0,
   matchCount |-> 0, evals |-> 0, history |-> <<>>, result |-> "none"]

\* what poolFilters.execute resolves with: every filter was ok, or not
EngineOutcomes == BOOLEAN

\* the engine is bypassed only when both knobs are zero
FilterBypassedBoth(duration, interval) == interval = 0 /\ duration = 0
\* `filterCheckInterval === 0 || filterCheckDuration === 0`
FilterBypassed(duration, interval) == interval = 0 \/ duration = 0

\* a failing evaluation leaves the counter as it is
CountAfterNoReset(matchCount, shouldBuy) ==
  IF shouldBuy THEN matchCount + 1 ELSE matchCount
\* matchCount++ on a pass, matchCount = 0 otherwise
CountAfter(matchCount, shouldBuy) ==
  IF shouldBuy THEN matchCount + 1 ELSE 0

\* `timesChecked < timesToCheck`, where timesToCheck is the quotient
\* duration / interval of two numbers, not rounded
FilterGoesOn(timesChecked, duration, interval) ==
  timesChecked * interval < duration

filterFrame == <<shared, locals, txExecutor, swapCall, avoidFile, avoidOp,
                 connPool, executor, priceCall, pumpCall>>

\* buy() calls filterMatch: true at once when a knob is zero, otherwise
\* the first evaluation is requested
FilterCall ==
  /\ filterCall.pc = "idle"
  /\ \E d \in 0..MaxDuration, iv \in 0..MaxDuration, c \in 1..MaxMatch :
       IF FilterBypassed(d, iv)
         THEN filterCall' = [NoFilter EXCEPT !.pc = "returned", !.duration = d, !.interval = iv,
                                              !.count = c, !.result = "true"]
         ELSE filterCall' = [NoFilter EXCEPT !.pc = "eval", !.duration = d, !.interval = iv,
                                              !.count = c, !.evals = 1]
  /\ UNCHANGED filterFrame

\* the engine resolves: the counter is updated, and the call returns true
\* when it has reached consecutiveMatchCount (the `finally` still counts the
\* iteration); otherwise the iteration sleeps
FilterEvaluated ==
  /\ filterCall.pc = "eval"
  /\ \E shouldBuy \in EngineOutcomes :
       LET m == CountAfter(filterCall.matchCount, shouldBuy)
           c == [filterCall EXCEPT !.matchCount = m,
                                   !.history = Append(filterCall.history, shouldBuy)]
       IN IF shouldBuy /\ filterCall.count <= m
            THEN filterCall' = [c EXCEPT !.pc = "returned", !.result = "true",
                                         !.timesChecked = filterCall.timesChecked + 1]
            ELSE filterCall' = [c EXCEPT !.pc = "sleep"]
  /\ UNCHANGED filterFrame

\* the sleep is over: `finally` counts the iteration and the loop condition
\* is tested
FilterWoke ==
  /\ filterCall.pc = "sleep"
  /\ LET n == filterCall.timesChecked + 1
     IN IF FilterGoesOn(n, filterCall.duration, filterCall.interval)
          THEN filterCall' = [filterCall EXCEPT !.timesChecked = n, !.pc = "eval",
                                                !.evals = filterCall.evals + 1]
          ELSE filterCall' = [filterCall EXCEPT !.timesChecked = n, !.pc = "returned",
                                                !.result = "false"]
  /\ UNCHANGED filterFrame

\* buy() has the answer: it goes on to the swap attempts or skips the pool
FilterReturned ==
  /\ filterCall.pc = "returned"
  /\ filterCall' = NoFilter
  /\ UNCHANGED filterFrame

\* ---- PumpFunFilter.execute ----
\* String.prototype.includes and String.prototype.endsWith
Includes(s, t) ==
  \E k \in 1..(Len(s) - Len(t) + 1) : SubSeq(s, k, k + Len(t) - 1) = t
EndsWith(s, t) ==
  Len(s) >= Len(t) /\ SubSeq(s, Len(s) - Len(t) + 1, Len(s)) = t

PumpFunUri == <<"p", "u", "m", "p", ".", "f", "u", "n">>
PumpSuffix == <<"p", "u", "m", "p">>
PUMP_FUN_UPDATE_AUTHORITY == <<"p", "u", "m", "p", "1">>

\* the metadata accounts of the chain: uri, mint and update authority
Uris ==
  {<<>>, <<"x">>, PumpFunUri, <<"x">> \o PumpFunUri \o <<"/", "x">>,
   SubSeq(PumpFunUri, 1, 7), SubSeq(PumpFunUri, 2, 8),
   PumpSuffix \o <<"f", "u", "n">>, <<"f", "u", "n", ".">> \o PumpSuffix}
MetadataMints ==
  {<<"A">>, PumpSuffix, <<"A">> \o PumpSuffix, PumpSuffix \o <<"A">>,
   <<"A", "u", "m", "p">>, <<"P", "U", "M", "P">>}
Authorities == {PUMP_FUN_UPDATE_AUTHORITY, <<"o", "t", "h", "e", "r">>}
Metadata == [uri : Uris, mint : MetadataMints, updateAuthority : Authorities]
NoMetadata == [uri |-> <<>>, mint |-> <<>>, updateAuthority |-> <<>>]

\* what getAccountInfo finds at the metadata address: no account, an
\* account whose data does not decode, or an account with metadata
Accounts ==
  {[found |-> FALSE, decodes |-> FALSE, metadata |-> NoMetadata]} \cup
  {[found |-> TRUE, decodes |-> FALSE, metadata |-> NoMetadata]} \cup
  {[found |-> TRUE, decodes |-> TRUE, metadata |-> m] : m \in Metadata}

\* the test on the uri alone
IsPumpFunByUri(metadata) == Includes(metadata.uri, PumpFunUri)
\* `const isPumpFun = ...`
IsPumpFun(metadata) ==
  \/ Includes(metadata.uri, PumpFunUri)
  \/ EndsWith(metadata.mint, PumpSuffix)
  \/ metadata.updateAuthority = PUMP_FUN_UPDATE_AUTHORITY

\* an execute() without its try/catch
PumpErrorUncaught == FALSE
\* the body of execute() is one try whose catch returns ok: false
PumpErrorCaught == TRUE

NoMessage == "undefined"
PumpResult(ok, message) == [ok |-> ok, message |-> message, raised |-> FALSE]
PumpRaised == [ok |-> FALSE, message |-> NoMessage, raised |-> TRUE]
PumpFailed ==
  IF PumpErrorCaught THEN PumpResult(FALSE, "PumpFun -> Failed to check token")
                     ELSE PumpRaised

\* the result of execute() when getAccountInfo settles: it raised
\* (fetched = FALSE) or returned the account
PumpFunExecute(fetched, account) ==
  IF ~fetched THEN PumpFailed
  ELSE IF ~account.found
    THEN PumpResult(FALSE, "PumpFun -> Failed to fetch metadata account")
  ELSE IF ~account.decodes THEN PumpFailed
  ELSE IF IsPumpFun(account.metadata) THEN PumpResult(TRUE, NoMessage)
  ELSE PumpResult(FALSE, "PumpFun -> Token does not appear to be from Pump.fun")

NoPump ==
  [pc |-> "idle", account |-> [found |-> FALSE, decodes |-> FALSE, metadata |-> NoMetadata],
   fetched |-> FALSE, result |-> PumpResult(FALSE, NoMessage)]

pumpFrame == <<shared, locals, txExecutor, swapCall, avoidFile, avoidOp,
               connPool, executor, priceCall, filterCall>>

\* execute(poolKeys) is called for a base mint whose metadata address holds
\* the account a; getAccountInfo is requested
PumpCalled ==
  /\ pumpCall.pc = "idle"
  /\ \E a \in Accounts : pumpCall' = [NoPump EXCEPT !.pc = "fetch", !.account = a]
  /\ UNCHANGED pumpFrame

\* getAccountInfo settles and execute() returns (or raises)
PumpFetched ==
  /\ pumpCall.pc = "fetch"
  /\ \E f \in BOOLEAN :
       pumpCall' = [pumpCall EXCEPT !.pc = "returned", !.fetched = f,
                                    !.result = PumpFunExecute(f, pumpCall.account)]
  /\ UNCHANGED pumpFrame

\* the engine has the result
PumpReturned ==
  /\ pumpCall.pc = "returned"
  /\ pumpCall' = NoPump
  /\ UNCHANGED pumpFrame

\* ---- configuration ----
ListenerConfig(c) ==
  [cacheNewMarkets |-> c.cacheNewMarkets, cpmm |-> c.cpmm, autoSell |-> c.autoSell]

\* start() that subscribes to the wallet whatever autoSell says
KindsOfWithWallet(c) ==
  (IF c.cacheNewMarkets THEN <<"market">> ELSE <<>>) \o <<"pool">> \o
  (IF c.cpmm THEN <<"cpmm">> ELSE <<>>) \o <<"wallet">>
\* the subscriptions start() establishes, in order
KindsOf(c) ==
  (IF c.cacheNewMarkets THEN <<"market">> ELSE <<>>) \o <<"pool">> \o
  (IF c.cpmm THEN <<"cpmm">> ELSE <<>>) \o
  (IF c.autoSell THEN <<"wallet">> ELSE <<>>)

\* ---- upstream state ----
\* A handle of Listeners.subscriptions, with the state of the upstream
\* subscription it names.  The list is only mapped over, tested for
\* emptiness and cleared, so it is kept as a bag.
Handle(k, l) == [kind |-> k, live |-> l]
Kinds == {"market", "pool", "cpmm", "wallet"}
Pending == {p \in Procs : pc[p] = "st_sub"}
LiveCount(k) ==
  CopiesIn(Handle(k, TRUE), subscriptions) + orphans[k] +
  Cardinality({p \in Pending : stPend[p] = k})
LiveKinds == {k \in Kinds : LiveCount(k) > 0}
TotalLive == LiveCount("market") + LiveCount("pool") + LiveCount("cpmm") + LiveCount("wallet")

\* ---- Listeners.stop() ----
LiveHandles ==
  [h \in {x \in BagToSet(subscriptions) : x.live} |-> subscriptions[h]]

\* the handles of B after removeAccountChangeListener succeeded for each
Removed(B) ==
  LET n(k) == CopiesIn(Handle(k, TRUE), B) + CopiesIn(Handle(k, FALSE), B)
  IN [h \in {Handle(k, FALSE) : k \in {x \in Kinds : n(x) > 0}} |-> n(h.kind)]

\* the removals that fail
FailBags == IF faults THEN SubBag(LiveHandles) ELSE {EmptyBag}

\* stop() that clears the list without removing the listeners
CallStopKeepsListeners(p) ==
  /\ subscriptions' = subscriptions
  /\ stopClears' = [stopClears EXCEPT ![p] = (subscriptions # EmptyBag)]
  /\ stopWaits' = [stopWaits EXCEPT ![p] = (LiveHandles # EmptyBag)]
  /\ stopFailed' = [stopFailed EXCEPT ![p] = FALSE]
\* the call up to its await: the listener of every handle of the list is
\* removed (those of F fail and stay live)
CallStop(p) ==
  \E F \in FailBags :
    /\ subscriptions' = F (+) Removed(subscriptions (-) F)
    /\ stopClears' = [stopClears EXCEPT ![p] = (subscriptions # EmptyBag)]
    /\ stopWaits' = [stopWaits EXCEPT ![p] = (LiveHandles # EmptyBag)]
    /\ stopFailed' = [stopFailed EXCEPT ![p] = (F # EmptyBag)]

\* a removal whose rejection nothing catches
RemovalUncaught == FALSE
\* every removal of stop() carries a .catch that logs the error
RemovalCaught == TRUE

\* Promise.all of stop() rejects, and with it stop()
StopRaises(p) == stopFailed[p] /\ ~RemovalCaught

\* stop() that leaves the handles in the list
ClearedListKeepsHandles(p) == subscriptions
\* the list after the await of stop(): cleared unless it was empty at the
\* call (or the await raised)
ClearedList(p) == IF stopClears[p] /\ ~StopRaises(p) THEN EmptyBag ELSE subscriptions
ClearedOrphans(p) ==
  IF stopClears[p] /\ ~StopRaises(p)
    THEN [k \in Kinds |-> orphans[k] + CopiesIn(Handle(k, TRUE), subscriptions)]
    ELSE orphans

\* ---- scheduling ----
\* every await of stop() is a task, also when nothing is unsubscribed
MicroButStop(p) == pc[p] \in {"st_sub", "b_acquire"}
\* An await of a value that is already there resumes in a microtask: the
\* subscribe calls of start() (onProgramAccountChange returns the handle at
\* once), mutex.acquire() on a free mutex, and a stop() that has nothing to
\* unsubscribe upstream (an empty list, or handles that an earlier stop()
\* already removed: removeAccountChangeListener finds no such listener and
\* returns without I/O).  Events, timers and network completions are tasks:
\* they run only when no microtask is pending.
Micro(p) ==
  \/ pc[p] \in {"st_sub", "b_acquire"}
  \/ pc[p] \in {"b_stop", "s_stop", "st_stop", "x_stop"} /\ ~stopWaits[p]
TaskTurn == \A q \in Procs : ~Micro(q)
Resumes(p) == Micro(p) \/ TaskTurn

\* ---- helpers shared by the steps of buy() and sell() ----
Goto(p, l) == pc' = [pc EXCEPT ![p] = l]

\* listeners.start() in a cleanup block, up to its first await
StartCall(p) ==
  /\ calledStart' = [calledStart EXCEPT ![p] = TRUE]
  /\ IF CONFIG # NoConfig
       THEN CallStop(p) /\ Goto(p, "st_stop")
       ELSE Goto(p, "done") /\ UNCHANGED <<subscriptions, stopClears, stopWaits, stopFailed>>

\* a finally block that leaves the mutex locked
BuyFinallyNoRelease(p, acq, stopped) ==
  /\ UNCHANGED <<mutexLocked, releases>>
  /\ IF cfg.oneTokenAtATime /\ stopped
       THEN StartCall(p)
       ELSE Goto(p, "done") /\ UNCHANGED <<calledStart, subscriptions, stopClears, stopWaits, stopFailed>>
\* the finally block of buy()
BuyFinally(p, acq, stopped) ==
  /\ IF cfg.oneTokenAtATime /\ acq
       THEN mutexLocked' = FALSE /\ releases' = [releases EXCEPT ![p] = @ + 1]
       ELSE UNCHANGED <<mutexLocked, releases>>
  /\ IF cfg.oneTokenAtATime /\ stopped
       THEN StartCall(p)
       ELSE Goto(p, "done") /\ UNCHANGED <<calledStart, subscriptions, stopClears, stopWaits, stopFailed>>

\* the no-market branch without its mutex.release()
BuyCpmmSkipNoRelease(p, acq, stopped) ==
  /\ UNCHANGED <<mutexLocked, releases>>
  /\ IF cfg.oneTokenAtATime /\ stopped
       THEN StartCall(p)
       ELSE Goto(p, "done") /\ UNCHANGED <<calledStart, subscriptions, stopClears, stopWaits, stopFailed>>
\* the branch of buy() for a pool without market id
BuyCpmmSkip(p, acq, stopped) ==
  /\ IF cfg.oneTokenAtATime /\ acq
       THEN mutexLocked' = FALSE /\ releases' = [releases EXCEPT ![p] = @ + 1]
       ELSE UNCHANGED <<mutexLocked, releases>>
  /\ IF cfg.oneTokenAtATime /\ stopped
       THEN StartCall(p)
       ELSE Goto(p, "done") /\ UNCHANGED <<calledStart, subscriptions, stopClears, stopWaits, stopFailed>>

\* the loop head with `i <= maxBuyRetries`
BuyLoopOffByOne(p, n, acq, stopped) ==
  IF n <= cfg.maxBuyRetries
    THEN Goto(p, "b_swap") /\ UNCHANGED <<mutexLocked, releases, calledStart, subscriptions, stopClears, stopWaits, stopFailed>>
    ELSE BuyFinally(p, acq, stopped)
\* head of the retry loop of buy() with loop variable n
BuyLoop(p, n, acq, stopped) ==
  IF n < cfg.maxBuyRetries
    THEN Goto(p, "b_swap") /\ UNCHANGED <<mutexLocked, releases, calledStart, subscriptions, stopClears, stopWaits, stopFailed>>
    ELSE BuyFinally(p, acq, stopped)

\* a buy that fetches the market whether or not the pool names one
BuyProceedAlways(p, hm, acq, stopped) ==
  Goto(p, "b_market") /\ UNCHANGED <<mutexLocked, releases, calledStart, subscriptions, stopClears, stopWaits, stopFailed>>
\* `if (poolState.marketId)`: fetch the market, or skip the pool
BuyProceed(p, hm, acq, stopped) ==
  IF hm
    THEN Goto(p, "b_market") /\ UNCHANGED <<mutexLocked, releases, calledStart, subscriptions, stopClears, stopWaits, stopFailed>>
    ELSE BuyCpmmSkip(p, acq, stopped)

\* the gate with an acquire() that does not lock
BuyGateCheckNoLock(p) ==
  IF mutexLocked \/ sellExecutionCount > 0
    THEN Goto(p, "done") /\ UNCHANGED mutexLocked
    ELSE UNCHANGED mutexLocked /\ Goto(p, "b_acquire")
\* the gate that tests the mutex only
BuyGateCheckIgnoresSells(p) ==
  IF mutexLocked
    THEN Goto(p, "done") /\ UNCHANGED mutexLocked
    ELSE mutexLocked' = TRUE /\ Goto(p, "b_acquire")
\* `if (this.mutex.isLocked() || this.sellExecutionCount > 0) return;`
\* then mutex.acquire(), which locks a free mutex within the call
BuyGateCheck(p) ==
  IF mutexLocked \/ sellExecutionCount > 0
    THEN Goto(p, "done") /\ UNCHANGED mutexLocked
    ELSE mutexLocked' = TRUE /\ Goto(p, "b_acquire")

\* a buy that goes through the gate whatever oneTokenAtATime says
BuyGateAlways(p, hm) ==
  IF sellExecutionCount > 0
    THEN CallStop(p) /\ Goto(p, "b_stop") /\ UNCHANGED <<mutexLocked, releases, calledStart>>
    ELSE BuyGateCheck(p) /\ UNCHANGED <<releases, calledStart, subscriptions, stopClears, stopWaits, stopFailed>>
\* the oneTokenAtATime block of buy(), up to its first await
BuyGate(p, hm) ==
  IF cfg.oneTokenAtATime
    THEN IF sellExecutionCount > 0
           THEN CallStop(p) /\ Goto(p, "b_stop") /\ UNCHANGED <<mutexLocked, releases, calledStart>>
           ELSE BuyGateCheck(p) /\ UNCHANGED <<releases, calledStart, subscriptions, stopClears, stopWaits, stopFailed>>
    ELSE BuyProceed(p, hm, FALSE, FALSE)

\* a new invocation takes the first free slot (the slots are interchangeable)
FreeSlot(p) == pc[p] = "idle" /\ \A q \in Procs : q < p => pc[q] # "idle"

\* the base mint of a pool event; it is only read by the list checks
EventMints == IF cfg.useSnipeList \/ cfg.useAvoidList THEN Mints ELSE {<<"A">>}

\* `useSnipeList && !snipeListCache.isInList(baseMint)`
SnipeSkip(m) == cfg.useSnipeList /\ m \notin snipeList

\* buy() without the avoid-list check
AvoidSkipNever(m) == FALSE
\* `useAvoidList && avoidListCache.isInList(baseMint)`
AvoidSkip(m) == cfg.useAvoidList /\ IsInList(m)

\* a loop that also ends on an exception; one that goes on after confirmed
BuyBreaksOnError(r) == r \in {"empty", "confirmed", "error"}
BuyBreaksOnEmptyOnly(r) == r = "empty"
\* the results of swap() on which the retry loop of buy() does `break`
BuyBreaks(r) == r \in {"empty", "confirmed"}

\* the results of swap() on which the retry loop of sell() does `break`
SellBreaks(r) == r \in {"empty", "confirmed"}

\* ---- Bot.buy ----
\* a pool event is delivered: buy() runs up to its first await
BuyEvent(p) ==
  /\ FreeSlot(p)
  /\ TaskTurn
  /\ \E m \in EventMints, k \in LiveKinds \cap {"pool", "cpmm"} :
       /\ kind' = [kind EXCEPT ![p] = "buy"]
       /\ mint' = [mint EXCEPT ![p] = m]
       /\ hasMarket' = [hasMarket EXCEPT ![p] = (k = "pool")]
       /\ IF SnipeSkip(m)
            THEN Goto(p, "done") /\ UNCHANGED <<mutexLocked, releases, calledStart, subscriptions, stopClears, stopWaits, stopFailed>>
            ELSE IF AvoidSkip(m)
              THEN Goto(p, "done") /\ UNCHANGED <<mutexLocked, releases, calledStart, subscriptions, stopClears, stopWaits, stopFailed>>
              ELSE IF cfg.autoBuyDelay > 0
                THEN Goto(p, "b_sleep") /\ UNCHANGED <<mutexLocked, releases, calledStart, subscriptions, stopClears, stopWaits, stopFailed>>
                ELSE BuyGate(p, k = "pool")
  /\ UNCHANGED <<cfg, faults, snipeList, avoidList, CONFIG, orphans, sellExecutionCount,
                 acquiredMutex, listenersStopped, i, outcomes, stQueue, stPend>>
  /\ UNCHANGED <<aux, lastResult>>

\* the autoBuyDelay sleep ends
BuyWake(p) ==
  /\ pc[p] = "b_sleep"
  /\ Resumes(p)
  /\ BuyGate(p, hasMarket[p])
  /\ UNCHANGED <<cfg, faults, snipeList, avoidList, CONFIG, orphans, sellExecutionCount,
                 kind, mint, hasMarket, acquiredMutex, listenersStopped, i, outcomes,
                 stQueue, stPend>>
  /\ UNCHANGED <<aux, lastResult>>

\* `await listeners.stop()` of buy() returns
BuyStopped(p) ==
  /\ pc[p] = "b_stop"
  /\ Resumes(p)
  /\ subscriptions' = ClearedList(p)
  /\ orphans' = ClearedOrphans(p)
  /\ stopClears' = [stopClears EXCEPT ![p] = FALSE]
  /\ stopWaits' = [stopWaits EXCEPT ![p] = FALSE]
  /\ stopFailed' = [stopFailed EXCEPT ![p] = FALSE]
  /\ listenersStopped' = [listenersStopped EXCEPT ![p] = TRUE]
  /\ BuyGateCheck(p)
  /\ UNCHANGED <<cfg, faults, snipeList, avoidList, CONFIG, sellExecutionCount,
                 kind, mint, hasMarket, acquiredMutex, i, outcomes, stQueue, stPend,
                 calledStart, releases>>
  /\ UNCHANGED <<aux, lastResult>>

\* `await this.mutex.acquire()` returns
BuyAcquired(p) ==
  /\ pc[p] = "b_acquire"
  /\ Resumes(p)
  /\ acquiredMutex' = [acquiredMutex EXCEPT ![p] = TRUE]
  /\ BuyProceed(p, hasMarket[p], TRUE, listenersStopped[p])
  /\ UNCHANGED <<cfg, faults, snipeList, avoidList, CONFIG, orphans, sellExecutionCount,
                 kind, mint, hasMarket, listenersStopped, i, outcomes, stQueue, stPend>>
  /\ UNCHANGED <<aux, lastResult>>

\* a buy that runs the filters whatever the lists say
RunsFilterAlways == TRUE
\* `if (!this.config.useSnipeList)`: the filters are run only when the
\* allow list is not used
RunsFilter == ~cfg.useSnipeList

\* the market fetch returns or raises
BuyMarket(p) ==
  /\ pc[p] = "b_market"
  /\ Resumes(p)
  /\ \E ok \in BOOLEAN :
       /\ lastResult' = [lastResult EXCEPT ![p] = <<"market", IF ok THEN "ok" ELSE "error">>]
       /\ IF ~ok THEN BuyFinally(p, acquiredMutex[p], listenersStopped[p])
          ELSE IF RunsFilter
            THEN Goto(p, "b_filter") /\ UNCHANGED <<mutexLocked, releases, calledStart, subscriptions, stopClears, stopWaits, stopFailed>>
            ELSE BuyLoop(p, 0, acquiredMutex[p], listenersStopped[p])
  /\ UNCHANGED <<cfg, faults, snipeList, avoidList, CONFIG, orphans, sellExecutionCount,
                 kind, mint, hasMarket, acquiredMutex, listenersStopped, i, outcomes,
                 stQueue, stPend>>
  /\ UNCHANGED aux

\* filterMatch returns true or false, or raises
BuyFilter(p) ==
  /\ pc[p] = "b_filter"
  /\ Resumes(p)
  /\ \E r \in {"match", "nomatch", "error"} :
       /\ lastResult' = [lastResult EXCEPT ![p] = <<"filter", r>>]
       /\ IF r = "match" THEN BuyLoop(p, 0, acquiredMutex[p], listenersStopped[p])
          ELSE BuyFinally(p, acquiredMutex[p], listenersStopped[p])
  /\ UNCHANGED <<cfg, faults, snipeList, avoidList, CONFIG, orphans, sellExecutionCount,
                 kind, mint, hasMarket, acquiredMutex, listenersStopped, i, outcomes,
                 stQueue, stPend>>
  /\ UNCHANGED aux

\* one swap() call of the buy loop returns r
BuySwap(p) ==
  /\ pc[p] = "b_swap"
  /\ Resumes(p)
  /\ \E r \in Outcomes :
       /\ outcomes' = [outcomes EXCEPT ![p] = Append(@, r)]
       /\ IF BuyBreaks(r)
            THEN BuyFinally(p, acquiredMutex[p], listenersStopped[p]) /\ UNCHANGED i
            ELSE IF r = "unconfirmed"
              THEN /\ i' = [i EXCEPT ![p] = @ + 1]
                   /\ BuyLoop(p, i[p] + 1, acquiredMutex[p], listenersStopped[p])
              ELSE /\ Goto(p, "b_log")
                   /\ UNCHANGED <<i, mutexLocked, releases, calledStart, subscriptions, stopClears, stopWaits, stopFailed>>
  /\ UNCHANGED <<cfg, faults, snipeList, avoidList, CONFIG, orphans, sellExecutionCount,
                 kind, mint, hasMarket, acquiredMutex, listenersStopped, stQueue, stPend>>
  /\ UNCHANGED <<aux, lastResult>>

\* `await this.logSendTransactionError(...)` in the catch of the loop returns
BuyLogged(p) ==
  /\ pc[p] = "b_log"
  /\ Resumes(p)
  /\ i' = [i EXCEPT ![p] = @ + 1]
  /\ BuyLoop(p, i[p] + 1, acquiredMutex[p], listenersStopped[p])
  /\ UNCHANGED <<cfg, faults, snipeList, avoidList, CONFIG, orphans, sellExecutionCount,
                 kind, mint, hasMarket, acquiredMutex, listenersStopped, outcomes,
                 stQueue, stPend>>
  /\ UNCHANGED <<aux, lastResult>>


\* the finally block without the restart of the listeners
SellFinallyNoRestart(p, stopped) ==
  /\ IF cfg.oneTokenAtATime
       THEN sellExecutionCount' = sellExecutionCount - 1
       ELSE UNCHANGED sellExecutionCount
  /\ Goto(p, "done") /\ UNCHANGED <<calledStart, subscriptions, stopClears, stopWaits, stopFailed>>
\* ---- Bot.sell ----
\* the finally block of sell()
SellFinally(p, stopped) ==
  /\ IF cfg.oneTokenAtATime
       THEN sellExecutionCount' = sellExecutionCount - 1
       ELSE UNCHANGED sellExecutionCount
  /\ IF cfg.oneTokenAtATime /\ stopped
       THEN StartCall(p)
       ELSE Goto(p, "done") /\ UNCHANGED <<calledStart, subscriptions, stopClears, stopWaits, stopFailed>>

\* a loop whose exit returns without the finally block
SellLoopSkipsFinally(p, n, stopped) ==
  IF n < cfg.maxSellRetries
    THEN Goto(p, "s_swap") /\ UNCHANGED <<sellExecutionCount, calledStart, subscriptions, stopClears, stopWaits, stopFailed>>
    ELSE Goto(p, "done") /\ UNCHANGED <<sellExecutionCount, calledStart, subscriptions, stopClears, stopWaits, stopFailed>>
\* head of the retry loop of sell() with loop variable n
SellLoop(p, n, stopped) ==
  IF n < cfg.maxSellRetries
    THEN Goto(p, "s_swap") /\ UNCHANGED <<sellExecutionCount, calledStart, subscriptions, stopClears, stopWaits, stopFailed>>
    ELSE SellFinally(p, stopped)

\* a wallet event is delivered: sell() runs up to its first await
SellEvent(p) ==
  /\ FreeSlot(p)
  /\ TaskTurn
  /\ "wallet" \in LiveKinds
  /\ kind' = [kind EXCEPT ![p] = "sell"]
  /\ IF cfg.oneTokenAtATime
       THEN /\ sellExecutionCount' = sellExecutionCount + 1
            /\ CallStop(p)
            /\ Goto(p, "s_stop")
       ELSE /\ Goto(p, "s_pool")
            /\ UNCHANGED <<sellExecutionCount, subscriptions, stopClears, stopWaits, stopFailed>>
  /\ UNCHANGED <<cfg, faults, snipeList, avoidList, CONFIG, orphans, mutexLocked,
                 mint, hasMarket, acquiredMutex, listenersStopped, i, outcomes,
                 stQueue, stPend, calledStart, releases>>
  /\ UNCHANGED <<aux, lastResult>>

\* `await listeners.stop()` of sell() returns
SellStopped(p) ==
  /\ pc[p] = "s_stop"
  /\ Resumes(p)
  /\ subscriptions' = ClearedList(p)
  /\ orphans' = ClearedOrphans(p)
  /\ stopClears' = [stopClears EXCEPT ![p] = FALSE]
  /\ stopWaits' = [stopWaits EXCEPT ![p] = FALSE]
  /\ stopFailed' = [stopFailed EXCEPT ![p] = FALSE]
  /\ listenersStopped' = [listenersStopped EXCEPT ![p] = TRUE]
  /\ Goto(p, "s_pool")
  /\ UNCHANGED <<cfg, faults, snipeList, avoidList, CONFIG, mutexLocked, sellExecutionCount,
                 kind, mint, hasMarket, acquiredMutex, i, outcomes, stQueue, stPend,
                 calledStart, releases>>
  /\ UNCHANGED <<aux, lastResult>>

\* a sell that goes on with an empty balance
SellGoesOnWithZero(r) == r \in {"found", "zero"}
\* the sell goes on only with a pool (`!poolData` returns) and a balance
\* (`tokenAmountIn.isZero()` returns)
SellGoesOn(r) == r = "found"

\* poolStorage.get returns: no pool, a zero balance, a pool, or it raises
SellPool(p) ==
  /\ pc[p] = "s_pool"
  /\ Resumes(p)
  /\ \E r \in {"missing", "zero", "found", "error"} :
       /\ lastResult' = [lastResult EXCEPT ![p] = <<"pool", r>>]
       /\ IF SellGoesOn(r)
            THEN /\ Goto(p, IF cfg.autoSellDelay > 0 THEN "s_sleep" ELSE "s_market")
                 /\ UNCHANGED <<sellExecutionCount, calledStart, subscriptions, stopClears, stopWaits, stopFailed>>
            ELSE SellFinally(p, listenersStopped[p])
  /\ UNCHANGED <<cfg, faults, snipeList, avoidList, CONFIG, orphans, mutexLocked,
                 kind, mint, hasMarket, acquiredMutex, listenersStopped, i, outcomes,
                 stQueue, stPend, releases>>
  /\ UNCHANGED aux

\* the autoSellDelay sleep ends
SellWake(p) ==
  /\ pc[p] = "s_sleep"
  /\ Resumes(p)
  /\ Goto(p, "s_market")
  /\ UNCHANGED <<shared, kind, mint, hasMarket, acquiredMutex, listenersStopped, i,
                 outcomes, stopClears, stopWaits, stopFailed, stQueue, stPend, calledStart, releases>>
  /\ UNCHANGED <<aux, lastResult>>

\* marketStorage.get returns or raises
SellMarket(p) ==
  /\ pc[p] = "s_market"
  /\ Resumes(p)
  /\ \E ok \in BOOLEAN :
       /\ lastResult' = [lastResult EXCEPT ![p] = <<"market", IF ok THEN "ok" ELSE "error">>]
       /\ IF ok
            THEN /\ Goto(p, "s_price")
                 /\ UNCHANGED <<sellExecutionCount, calledStart, subscriptions, stopClears, stopWaits, stopFailed>>
            ELSE SellFinally(p, listenersStopped[p])
  /\ UNCHANGED <<cfg, faults, snipeList, avoidList, CONFIG, orphans, mutexLocked,
                 kind, mint, hasMarket, acquiredMutex, listenersStopped, i, outcomes,
                 stQueue, stPend, releases>>
  /\ UNCHANGED aux

\* priceMatch returns
SellPrice(p) ==
  /\ pc[p] = "s_price"
  /\ Resumes(p)
  /\ SellLoop(p, 0, listenersStopped[p])
  /\ UNCHANGED <<cfg, faults, snipeList, avoidList, CONFIG, orphans, mutexLocked,
                 kind, mint, hasMarket, acquiredMutex, listenersStopped, i, outcomes,
                 stQueue, stPend, releases>>
  /\ UNCHANGED <<aux, lastResult>>

\* one swap() call of the sell loop returns r
SellSwap(p) ==
  /\ pc[p] = "s_swap"
  /\ Resumes(p)
  /\ \E r \in Outcomes :
       /\ outcomes' = [outcomes EXCEPT ![p] = Append(@, r)]
       /\ IF SellBreaks(r)
            THEN SellFinally(p, listenersStopped[p]) /\ UNCHANGED i
            ELSE IF r = "unconfirmed"
              THEN /\ i' = [i EXCEPT ![p] = @ + 1]
                   /\ SellLoop(p, i[p] + 1, listenersStopped[p])
              ELSE /\ Goto(p, "s_log")
                   /\ UNCHANGED <<i, sellExecutionCount, calledStart, subscriptions, stopClears, stopWaits, stopFailed>>
  /\ UNCHANGED <<cfg, faults, snipeList, avoidList, CONFIG, orphans, mutexLocked,
                 kind, mint, hasMarket, acquiredMutex, listenersStopped, stQueue, stPend,
                 releases>>
  /\ UNCHANGED <<aux, lastResult>>

\* `await this.logSendTransactionError(...)` in the catch of the loop returns
SellLogged(p) ==
  /\ pc[p] = "s_log"
  /\ Resumes(p)
  /\ i' = [i EXCEPT ![p] = @ + 1]
  /\ SellLoop(p, i[p] + 1, listenersStopped[p])
  /\ UNCHANGED <<cfg, faults, snipeList, avoidList, CONFIG, orphans, mutexLocked,
                 kind, mint, hasMarket, acquiredMutex, listenersStopped, outcomes,
                 stQueue, stPend, releases>>
  /\ UNCHANGED <<aux, lastResult>>

\* ---- Listeners.start ----
SubscribeOk == IF faults THEN BOOLEAN ELSE {TRUE}

\* the start-up code calls listeners.start(config)
MainStart(p) ==
  /\ pc[p] = "main"
  /\ Resumes(p)
  /\ CallStop(p)
  /\ Goto(p, "st_stop")
  /\ UNCHANGED <<cfg, faults, snipeList, avoidList, CONFIG, orphans, mutexLocked,
                 sellExecutionCount, kind, mint, hasMarket, acquiredMutex,
                 listenersStopped, i, outcomes, stQueue, stPend, calledStart, releases>>
  /\ UNCHANGED <<aux, lastResult>>

\* `await this.stop()` of start() returns; the first subscription is requested
StartStopped(p) ==
  /\ pc[p] = "st_stop"
  /\ Resumes(p)
  /\ LET config == IF kind[p] = "main" THEN ListenerConfig(cfg) ELSE CONFIG
         q == KindsOf(config)
     IN /\ subscriptions' = ClearedList(p)
        /\ orphans' = ClearedOrphans(p)
        /\ stopClears' = [stopClears EXCEPT ![p] = FALSE]
        /\ stopWaits' = [stopWaits EXCEPT ![p] = FALSE]
        /\ stopFailed' = [stopFailed EXCEPT ![p] = FALSE]
        /\ IF StopRaises(p)
             THEN Goto(p, "threw") /\ UNCHANGED <<CONFIG, stPend, stQueue>>
             ELSE /\ CONFIG' = config
                  /\ \E ok \in SubscribeOk :
                       IF ok
                         THEN /\ TotalLive < MaxSubs
                              /\ stPend' = [stPend EXCEPT ![p] = Head(q)]
                              /\ stQueue' = [stQueue EXCEPT ![p] = Tail(q)]
                              /\ Goto(p, "st_sub")
                         ELSE /\ Goto(p, "done")
                              /\ UNCHANGED <<stPend, stQueue>>
  /\ UNCHANGED <<cfg, faults, snipeList, avoidList, mutexLocked, sellExecutionCount,
                 kind, mint, hasMarket, acquiredMutex, listenersStopped, i, outcomes,
                 calledStart, releases>>
  /\ UNCHANGED <<aux, lastResult>>

\* `await this.subscribeTo...()` returns: the handle is pushed, and the next
\* subscription is requested or start() returns
StartPush(p) ==
  /\ pc[p] = "st_sub"
  /\ Resumes(p)
  /\ subscriptions' = subscriptions (+) SetToBag({Handle(stPend[p], TRUE)})
  /\ IF stQueue[p] # <<>>
       THEN \E ok \in SubscribeOk :
              IF ok
                THEN /\ TotalLive < MaxSubs
                     /\ stPend' = [stPend EXCEPT ![p] = Head(stQueue[p])]
                     /\ stQueue' = [stQueue EXCEPT ![p] = Tail(@)]
                     /\ UNCHANGED pc
                ELSE /\ stPend' = [stPend EXCEPT ![p] = NoKind]
                     /\ stQueue' = [stQueue EXCEPT ![p] = <<>>]
                     /\ Goto(p, "done")
       ELSE /\ stPend' = [stPend EXCEPT ![p] = NoKind]
            /\ UNCHANGED stQueue
            /\ Goto(p, "done")
  /\ UNCHANGED <<cfg, faults, snipeList, avoidList, CONFIG, orphans, mutexLocked,
                 sellExecutionCount, kind, mint, hasMarket, acquiredMutex,
                 listenersStopped, i, outcomes, stopClears, stopWaits, stopFailed, calledStart, releases>>
  /\ UNCHANGED <<aux, lastResult>>

\* ---- calls of start(null) and stop() by one client, one after the other ----
Calling(p) == pc[p] \in {"st_stop", "st_sub", "x_stop", "done", "threw"}
Sequential == \A q \in Procs : ~Calling(q)

\* start() without a configuration: it raises when none was stored, and
\* otherwise stops the listeners to start them from this.CONFIG
NullStart(p) ==
  /\ FreeSlot(p)
  /\ TaskTurn
  /\ Sequential
  /\ kind' = [kind EXCEPT ![p] = "restart"]
  /\ IF CONFIG = NoConfig
       THEN Goto(p, "threw") /\ UNCHANGED <<subscriptions, stopClears, stopWaits, stopFailed>>
       ELSE CallStop(p) /\ Goto(p, "st_stop")
  /\ UNCHANGED <<cfg, faults, snipeList, avoidList, CONFIG, orphans, mutexLocked,
                 sellExecutionCount, mint, hasMarket, acquiredMutex,
                 listenersStopped, i, outcomes, stQueue, stPend, calledStart, releases>>
  /\ UNCHANGED <<aux, lastResult>>

\* stop(), up to its await
DirectStop(p) ==
  /\ FreeSlot(p)
  /\ TaskTurn
  /\ Sequential
  /\ kind' = [kind EXCEPT ![p] = "stop"]
  /\ CallStop(p)
  /\ Goto(p, "x_stop")
  /\ UNCHANGED <<cfg, faults, snipeList, avoidList, CONFIG, orphans, mutexLocked,
                 sellExecutionCount, mint, hasMarket, acquiredMutex,
                 listenersStopped, i, outcomes, stQueue, stPend, calledStart, releases>>
  /\ UNCHANGED <<aux, lastResult>>

\* the await of stop() is over: the list is cleared and stop() returns
StopReturned(p) ==
  /\ pc[p] = "x_stop"
  /\ Resumes(p)
  /\ subscriptions' = ClearedList(p)
  /\ orphans' = ClearedOrphans(p)
  /\ stopClears' = [stopClears EXCEPT ![p] = FALSE]
  /\ stopWaits' = [stopWaits EXCEPT ![p] = FALSE]
  /\ stopFailed' = [stopFailed EXCEPT ![p] = FALSE]
  /\ Goto(p, IF StopRaises(p) THEN "threw" ELSE "done")
  /\ UNCHANGED <<cfg, faults, snipeList, avoidList, CONFIG, mutexLocked,
                 sellExecutionCount, kind, mint, hasMarket, acquiredMutex,
                 listenersStopped, i, outcomes, stQueue, stPend, calledStart, releases>>
  /\ UNCHANGED <<aux, lastResult>>

\* the promise of a finished invocation settles; its slot is free again
Settle(p) ==
  /\ pc[p] \in {"done", "threw"}
  /\ pc' = [pc EXCEPT ![p] = "idle"]
  /\ kind' = [kind EXCEPT ![p] = "none"]
  /\ mint' = [mint EXCEPT ![p] = NoMint]
  /\ hasMarket' = [hasMarket EXCEPT ![p] = FALSE]
  /\ acquiredMutex' = [acquiredMutex EXCEPT ![p] = FALSE]
  /\ listenersStopped' = [listenersStopped EXCEPT ![p] = FALSE]
  /\ i' = [i EXCEPT ![p] = 0]
  /\ outcomes' = [outcomes EXCEPT ![p] = <<>>]
  /\ calledStart' = [calledStart EXCEPT ![p] = FALSE]
  /\ releases' = [releases EXCEPT ![p] = 0]
  /\ lastResult' = [lastResult EXCEPT ![p] = NoResult]
  /\ UNCHANGED <<shared, stopClears, stopWaits, stopFailed, stQueue, stPend>>
  /\ UNCHANGED aux

\* ---- Bot.swap ----
Executors == {"default", "warp", "jito"}
isWarp == txExecutor = "warp"
isJito == txExecutor = "jito"
Directions == {"buy", "sell"}
Slippages == {0, 50}
NotComputed == 0 - 1
NoSwap ==
  [pc |-> "idle", direction |-> "none", amountIn |-> 0, slippage |-> 0,
   minAmountOut |-> NotComputed, instructions |-> <<>>, handed |-> FALSE,
   result |-> "none"]

\* Liquidity.computeAmountOut(...).minAmountOut: the constant-product quote
\* of amountIn against the fetched reserves, lowered by the slippage
ComputeAmountOut(reserveIn, reserveOut, amountIn, slippage) ==
  LET amountOut == (reserveOut * amountIn) \div (reserveIn + amountIn)
  IN (amountOut * 100) \div (100 + slippage)

\* innerTransaction.instructions of Liquidity.makeSwapFixedInInstruction
InnerInstructions(n) == [k \in 1..n |-> "swap"]

\* compute-budget instructions for every executor but Warp
BudgetInstructionsWarpOnly ==
  IF isWarp THEN <<>> ELSE <<"setComputeUnitPrice", "setComputeUnitLimit">>
BudgetInstructions ==
  IF isWarp \/ isJito THEN <<>> ELSE <<"setComputeUnitPrice", "setComputeUnitLimit">>

\* the token account is created in both directions
AtaInstructionsAlways(direction) == <<"createAssociatedTokenAccountIdempotent">>
AtaInstructions(direction) ==
  IF direction = "buy" THEN <<"createAssociatedTokenAccountIdempotent">> ELSE <<>>

\* the input account is closed in both directions
CloseInstructionsAlways(direction) == <<"closeAccount">>
CloseInstructions(direction) ==
  IF direction = "sell" THEN <<"closeAccount">> ELSE <<>>

\* the instructions of the TransactionMessage
SwapInstructions(direction, inner) ==
  BudgetInstructions \o AtaInstructions(direction) \o inner \o CloseInstructions(direction)

\* no amount counts as zero
AmountInIsNeverZero(amountIn) == FALSE
\* amountIn.isZero() || amountIn.raw.lte(new BN(0))
AmountInIsZero(amountIn) == amountIn <= 0

\* buy() or sell() calls swap(); it awaits Liquidity.fetchInfo
SwapCall ==
  /\ swapCall.pc = "idle"
  /\ \E d \in Directions, a \in 0..MaxAmount, sl \in Slippages :
       swapCall' = [NoSwap EXCEPT !.pc = "fetch", !.direction = d,
                                  !.amountIn = a, !.slippage = sl]
  /\ UNCHANGED <<shared, locals, txExecutor, avoidFile, avoidOp, ext>>

\* the pool info arrives: a zero amountIn returns nothing, otherwise the
\* quote is computed and swap() awaits getLatestBlockhash
SwapFetched ==
  /\ swapCall.pc = "fetch"
  /\ \E reserveIn \in 1..MaxAmount, reserveOut \in 1..MaxAmount :
       IF AmountInIsZero(swapCall.amountIn)
         THEN swapCall' = [swapCall EXCEPT !.pc = "returned", !.result = "empty"]
         ELSE swapCall' =
                [swapCall EXCEPT
                   !.pc = "blockhash",
                   !.minAmountOut = ComputeAmountOut(reserveIn, reserveOut,
                                                     swapCall.amountIn, swapCall.slippage)]
  /\ UNCHANGED <<shared, locals, txExecutor, avoidFile, avoidOp, ext>>

\* the blockhash arrives: the transaction is built, signed and handed to
\* txExecutor.executeAndConfirm
SwapBlockhash ==
  /\ swapCall.pc = "blockhash"
  /\ \E n \in 1..MaxInner :
       swapCall' = [swapCall EXCEPT
                      !.pc = "execute",
                      !.instructions = SwapInstructions(swapCall.direction, InnerInstructions(n)),
                      !.handed = TRUE]
  /\ UNCHANGED <<shared, locals, txExecutor, avoidFile, avoidOp, ext>>

\* executeAndConfirm settles
SwapExecuted ==
  /\ swapCall.pc = "execute"
  /\ \E r \in {"confirmed", "unconfirmed", "error"} :
       swapCall' = [swapCall EXCEPT !.pc = "returned", !.result = r]
  /\ UNCHANGED <<shared, locals, txExecutor, avoidFile, avoidOp, ext>>

\* the caller has the result
SwapReturned ==
  /\ swapCall.pc = "returned"
  /\ swapCall' = NoSwap
  /\ UNCHANGED <<shared, locals, txExecutor, avoidFile, avoidOp, ext>>

\* ---- specification ----
BotConfigs ==
  [oneTokenAtATime : BOOLEAN, useSnipeList : BOOLEAN, useAvoidList : BOOLEAN,
   autoBuyDelay : {0, 1}, autoSellDelay : {0, 1},
   maxBuyRetries : 0..MaxRetries, maxSellRetries : 0..MaxRetries,
   cacheNewMarkets : BOOLEAN, cpmm : BOOLEAN, autoSell : BOOLEAN]

InitBot(C, Fs) ==
  /\ cfg \in C
  /\ faults \in Fs
  /\ snipeList = {<<"A">>, <<"B">>}
  /\ CONFIG = NoConfig
  /\ subscriptions = EmptyBag
  /\ orphans = [k \in Kinds |-> 0]
  /\ mutexLocked = FALSE
  /\ sellExecutionCount = 0
  /\ pc = [p \in Procs |-> IF p = 1 THEN "main" ELSE "idle"]
  /\ kind = [p \in Procs |-> IF p = 1 THEN "main" ELSE "none"]
  /\ mint = [p \in Procs |-> NoMint]
  /\ hasMarket = [p \in Procs |-> FALSE]
  /\ acquiredMutex = [p \in Procs |-> FALSE]
  /\ listenersStopped = [p \in Procs |-> FALSE]
  /\ i = [p \in Procs |-> 0]
  /\ outcomes = [p \in Procs |-> <<>>]
  /\ stopClears = [p \in Procs |-> FALSE]
  /\ stopWaits = [p \in Procs |-> FALSE]
  /\ stopFailed = [p \in Procs |-> FALSE]
  /\ stQueue = [p \in Procs |-> <<>>]
  /\ stPend = [p \in Procs |-> NoKind]
  /\ calledStart = [p \in Procs |-> FALSE]
  /\ releases = [p \in Procs |-> 0]
  /\ lastResult = [p \in Procs |-> NoResult]
  /\ priceCall = NoPrice
  /\ filterCall = NoFilter
  /\ pumpCall = NoPump

InitWith(C, Fs) ==
  /\ InitPool({1})
  /\ InitBot(C, Fs)
  /\ txExecutor = "default"
  /\ swapCall = NoSwap
  /\ AvoidLoaded(<<"B", NL>>)

\* oneTokenAtATime mode with a sleep before the buy
SerialConfigs ==
  {c \in BotConfigs :
     /\ c.oneTokenAtATime /\ ~c.useSnipeList /\ ~c.useAvoidList
     /\ c.autoBuyDelay = 1 /\ c.autoSellDelay = 0
     /\ c.maxBuyRetries = 1 /\ c.maxSellRetries = 1
     /\ ~c.cacheNewMarkets /\ ~c.cpmm /\ c.autoSell}

\* the retry bounds, the lists and both pool kinds; the constant-product
\* subscription exists only where the snipe list is used (listeners.ts 71)
TradeConfigs ==
  {c \in BotConfigs :
     /\ c.autoBuyDelay = 0 /\ c.autoSellDelay = 1
     /\ c.cacheNewMarkets = (c.useSnipeList /\ c.useAvoidList)
     /\ c.cpmm = c.useSnipeList /\ c.autoSell
     /\ \/ /\ ~c.useSnipeList /\ ~c.useAvoidList
           /\ <<c.maxBuyRetries, c.maxSellRetries>> \in
                 {<<1, 1>>, <<0, MaxRetries>>, <<MaxRetries, 0>>}
        \/ c.oneTokenAtATime /\ c.maxBuyRetries = 1 /\ c.maxSellRetries = 1}

Init == InitWith(SerialConfigs \cup TradeConfigs, {FALSE})

Next ==
  \E p \in Procs :
    \/ MainStart(p) \/ StartStopped(p) \/ StartPush(p) \/ Settle(p)
    \/ BuyEvent(p) \/ BuyWake(p) \/ BuyStopped(p) \/ BuyAcquired(p)
    \/ BuyMarket(p) \/ BuyFilter(p) \/ BuySwap(p) \/ BuyLogged(p)
    \/ SellEvent(p) \/ SellStopped(p) \/ SellPool(p) \/ SellWake(p)
    \/ SellMarket(p) \/ SellPrice(p) \/ SellSwap(p) \/ SellLogged(p)

Spec == Init /\ [][Next]_vars

\* the swaps of one bot, for each class of executor
ListConfig ==
  [oneTokenAtATime |-> TRUE, useSnipeList |-> TRUE, useAvoidList |-> TRUE,
   autoBuyDelay |-> 0, autoSellDelay |-> 0, maxBuyRetries |-> 1, maxSellRetries |-> 1,
   cacheNewMarkets |-> TRUE, cpmm |-> TRUE, autoSell |-> TRUE]
InitSwap ==
  /\ InitBot({ListConfig}, {FALSE})
  /\ InitPool({1})
  /\ txExecutor \in Executors
  /\ swapCall = NoSwap
  /\ AvoidLoaded(<<"B", NL>>)
\* the listeners on their own: start(config) at start-up, then calls of
\* start() and stop(), with and without failing upstream calls
ListenerConfigs ==
  {c \in BotConfigs :
     /\ c.oneTokenAtATime /\ ~c.useSnipeList /\ ~c.useAvoidList
     /\ c.autoBuyDelay = 0 /\ c.autoSellDelay = 0
     /\ c.maxBuyRetries = 1 /\ c.maxSellRetries = 1}
InitListeners == InitWith(ListenerConfigs, BOOLEAN)
NextListeners ==
  \E p \in Procs :
    \/ MainStart(p) \/ NullStart(p) \/ DirectStop(p)
    \/ StartStopped(p) \/ StartPush(p) \/ StopReturned(p) \/ Settle(p)
SpecListeners == InitListeners /\ [][NextListeners]_vars

\* the avoid list over any file left by an earlier run or by hand
Addresses == {<<"A">>, <<"B">>}
FileChars == {"A", "B", Comma, NL}
PriorFiles == Strings(FileChars, MaxFile)
FewNotes == {NoNote, <<>>, <<Comma>>}
InitAvoidWith(Files) ==
  /\ InitBot({ListConfig}, {FALSE})
  /\ InitPool({1})
  /\ txExecutor = "default"
  /\ swapCall = NoSwap
  /\ avoidFile \in Files
  /\ avoidList = <<>>
  /\ avoidOp = [op |-> "new", address |-> <<>>, skipped |-> FALSE,
                failed |-> FALSE, threw |-> FALSE]
InitAvoid == InitAvoidWith(PriorFiles)
NextAvoid == AvoidLoad \/ \E a \in Addresses, n \in FewNotes : AvoidAdd(a, n)
SpecAvoid == InitAvoid /\ [][NextAvoid]_vars

\* the avoid list with file operations that can fail
NextAvoidFaults ==
  \/ AvoidLoad
  \/ AvoidReloadFails
  \/ \E a \in Addresses, n \in FewNotes : AvoidAdd(a, n)
  \/ \E a \in Addresses, n \in FewNotes : AvoidAddFails(a, n)
SpecAvoidFaults == InitAvoid /\ [][NextAvoidFaults]_vars

\* the avoid list from an empty file, with notes of any characters
NoteChars == {Comma, Quote, Backslash, NL}
Notes == Strings(NoteChars, MaxNote) \cup {NoNote}
InitAvoidNotes == InitAvoidWith({<<>>})
NextAvoidNotes == AvoidLoad \/ \E a \in Addresses, n \in Notes : AvoidAdd(a, n)
SpecAvoidNotes == InitAvoidNotes /\ [][NextAvoidNotes]_vars

\* the endpoint pool and the default executor
InitPoolSpec ==
  /\ InitBot({ListConfig}, {FALSE})
  /\ InitPool(1..MaxEndpoints)
  /\ txExecutor = "default"
  /\ swapCall = NoSwap
  /\ AvoidLoaded(<<"B", NL>>)
NextPool ==
  \/ PoolRefresh \/ PoolFallback \/ ExecRefresh
  \/ ExecSend \/ ExecSent \/ ExecConfirmed \/ ExecSettled
SpecPool == InitPoolSpec /\ [][NextPool]_vars

InitWatch ==
  /\ InitBot({ListConfig}, {FALSE})
  /\ InitPool({1})
  /\ txExecutor = "default"
  /\ swapCall = NoSwap
  /\ AvoidLoaded(<<"B", NL>>)
\* the pump-fun filter
NextPump == PumpCalled \/ PumpFetched \/ PumpReturned
SpecPump == InitWatch /\ [][NextPump]_vars

\* the filter window of one buy
NextFilter == FilterCall \/ FilterEvaluated \/ FilterWoke \/ FilterReturned
SpecFilter == InitWatch /\ [][NextFilter]_vars

\* the price watcher of one sell
NextPrice == PriceCall \/ PriceFetched \/ PriceWoke \/ PriceReturned \/ PriceSettled
SpecPrice == InitWatch /\ [][NextPrice]_vars

NextSwap == SwapCall \/ SwapFetched \/ SwapBlockhash \/ SwapExecuted \/ SwapReturned
SpecSwap == InitSwap /\ [][NextSwap]_vars


\* ---- properties ----
BuyPcs == {"b_sleep", "b_stop", "b_acquire", "b_market", "b_filter", "b_swap", "b_log"}
SellPcs == {"s_stop", "s_pool", "s_sleep", "s_market", "s_price", "s_swap", "s_log"}
StartPcs == {"st_stop", "st_sub"}
Running(p) == pc[p] \in BuyPcs \cup SellPcs \cup StartPcs
BuyInProgress(p) == kind[p] = "buy" /\ Running(p)
SellInProgress(p) == kind[p] = "sell" /\ Running(p)
Returned(p) == pc[p] = "done"

\* between mutex.acquire() and mutex.release()
CriticalPcs == {"b_acquire", "b_market", "b_filter", "b_swap", "b_log"}
InCritical(p) == kind[p] = "buy" /\ pc[p] \in CriticalPcs
\* a sell whose initial stop() has completed and whose finally has not run
SellBody(p) == kind[p] = "sell" /\ pc[p] \in SellPcs \ {"s_stop"}
\* a sell past its entry step whose finally has not run
SellEntered(p) == kind[p] = "sell" /\ pc[p] \in SellPcs

\* swap() calls made so far by the invocation in slot p
Attempts(p) == Len(outcomes[p]) + (IF pc[p] \in {"b_swap", "s_swap"} THEN 1 ELSE 0)
MaxAttempts(p) == IF kind[p] = "buy" THEN cfg.maxBuyRetries ELSE cfg.maxSellRetries
Trade(p) == kind[p] \in {"buy", "sell"}
InLoop(p) == pc[p] \in {"b_swap", "b_log", "s_swap", "s_log"}
Last(s) == s[Len(s)]

\* C1: with oneTokenAtATime, at most one buy is between acquiring and
\* releasing the trade mutex at any time.
C1_OneBuyInCriticalSection ==
  cfg.oneTokenAtATime => Cardinality({p \in Procs : InCritical(p)}) <= 1

\* a buy holds the mutex while another buy has been abandoned at the check
C1_Witness ==
  \E p, q \in Procs :
    /\ cfg.oneTokenAtATime /\ InCritical(p) /\ acquiredMutex[p]
    /\ kind[q] = "buy" /\ Returned(q) /\ ~acquiredMutex[q] /\ ~listenersStopped[q]

C3_MutexReleasedOnEveryPath ==
  /\ \A p \in Procs :
       (kind[p] = "buy" /\ Returned(p)) =>
          releases[p] = (IF cfg.oneTokenAtATime /\ acquiredMutex[p] THEN 1 ELSE 0)
  /\ mutexLocked => \E p \in Procs : InCritical(p)

\* a buy of a pool without market id has returned after releasing the mutex
C3_Witness ==
  \E p \in Procs :
    /\ kind[p] = "buy" /\ Returned(p) /\ acquiredMutex[p] /\ releases[p] = 1
    /\ ~hasMarket[p] /\ ~mutexLocked /\ cfg.useSnipeList

\* C4: with oneTokenAtATime, a buy that has returned called
\* listeners.start() if and only if it stopped the listeners.
C4_BuyRestartsIffStopped ==
  \A p \in Procs :
    (cfg.oneTokenAtATime /\ kind[p] = "buy" /\ Returned(p)) =>
       (calledStart[p] <=> listenersStopped[p])

\* the handles of Listeners.subscriptions whose upstream subscription is live
HeldLive == {k \in Kinds : CopiesIn(Handle(k, TRUE), subscriptions) > 0}
Quiescent == CONFIG # NoConfig /\ \A p \in Procs : ~Running(p) /\ pc[p] # "main"

\* C5: with oneTokenAtATime and no failing subscribe/unsubscribe call, once
\* the start-up and every buy and sell have returned, the subscription layer
\* holds a live handle for every subscription of its configuration.
C5_RunningWhenQuiescent ==
  (cfg.oneTokenAtATime /\ ~faults /\ Quiescent) =>
     \A n \in 1..Len(KindsOf(CONFIG)) : KindsOf(CONFIG)[n] \in HeldLive

\* every trade has returned after a buy stopped the listeners and was abandoned
C5_Witness ==
  /\ cfg.oneTokenAtATime /\ ~faults /\ Quiescent /\ "pool" \in HeldLive
  /\ \E p \in Procs :
       kind[p] = "buy" /\ Returned(p) /\ listenersStopped[p] /\ ~calledStart[p]

\* C6: with oneTokenAtATime, no buy is in its critical section while a sell
\* is in progress, and no two sells are past their entry step together.
C6_BuySellExclusive ==
  cfg.oneTokenAtATime =>
    /\ ~(sellExecutionCount > 0 /\ \E p \in Procs : InCritical(p))
    /\ Cardinality({p \in Procs : SellEntered(p)}) <= 1

\* C7: an invocation makes at most maxBuyRetries (maxSellRetries) swap
\* attempts; none when the bound is 0.
C7_AttemptsBounded ==
  \A p \in Procs : Trade(p) => Attempts(p) <= MaxAttempts(p)

\* a buy has returned after using up all its attempts
C7_Witness ==
  \E p \in Procs :
    /\ kind[p] = "buy" /\ Returned(p) /\ cfg.maxBuyRetries = MaxRetries
    /\ Len(outcomes[p]) = MaxRetries
    /\ \A j \in 1..MaxRetries : outcomes[p][j] \in {"unconfirmed", "error"}

\* C8: no swap is made after an attempt returned confirmed: a confirmed
\* result is the last result of its invocation and ends the loop.
C8_NoSwapAfterConfirmed ==
  \A p \in Procs : \A j \in 1..Len(outcomes[p]) :
    outcomes[p][j] = "confirmed" => (j = Len(outcomes[p]) /\ ~InLoop(p))

\* attempt 1 was not confirmed, attempt 2 was; the buy returned after 2 swaps
C8_Witness ==
  \E p \in Procs :
    kind[p] = "buy" /\ Returned(p) /\ outcomes[p] = <<"unconfirmed", "confirmed">>

\* C9: an unconfirmed or raising attempt does not end the trade: an
\* invocation that left the loop after such an attempt has used up its bound.
C9_FailureRetries ==
  \A p \in Procs :
    (Trade(p) /\ ~InLoop(p) /\ outcomes[p] # <<>> /\
     Last(outcomes[p]) \in {"unconfirmed", "error"})
       => Len(outcomes[p]) = MaxAttempts(p)

\* a sell whose first attempt raised made a second one, which was confirmed
C9_Witness ==
  \E p \in Procs :
    kind[p] = "sell" /\ Returned(p) /\ outcomes[p] = <<"error", "confirmed">>

\* C10: a pool event whose mint fails the snipe-list or avoid-list check is
\* abandoned at once: buy() returns in the step that received it, and the
\* mutex, the subscriptions and sellExecutionCount are unchanged.
Listed(m) == (cfg.useSnipeList /\ m \notin snipeList) \/ (cfg.useAvoidList /\ IsInList(m))
C10_ListedPoolAbandoned ==
  [][\A p \in Procs :
       (pc[p] = "idle" /\ kind'[p] = "buy" /\ Listed(mint'[p])) =>
          /\ pc'[p] = "done"
          /\ outcomes'[p] = <<>> /\ ~acquiredMutex'[p] /\ ~listenersStopped'[p]
          /\ UNCHANGED <<mutexLocked, subscriptions, orphans, sellExecutionCount, stopClears, stopWaits, stopFailed>>]_vars

\* a pool in the avoid list (and in the snipe list) was abandoned
C10_Witness ==
  \E p \in Procs :
    /\ kind[p] = "buy" /\ Returned(p) /\ cfg.useAvoidList /\ IsInList(mint[p])
    /\ (cfg.useSnipeList => mint[p] \in snipeList)


\* ---- the transaction of a swap ----
Built == swapCall.handed
Instr == swapCall.instructions
Positions(x) == {k \in 1..Len(Instr) : Instr[k] = x}
ComputeBudget == {"setComputeUnitPrice", "setComputeUnitLimit"}

\* C11: a swap built for the Warp or the Jito executor holds no
\* compute-budget instruction; one built for the default executor starts
\* with the unit-price instruction followed by the unit-limit instruction.
C11_ComputeBudgetByExecutor ==
  Built =>
    IF txExecutor \in {"warp", "jito"}
      THEN \A k \in 1..Len(Instr) : Instr[k] \notin ComputeBudget
      ELSE /\ Len(Instr) >= 2
           /\ Instr[1] = "setComputeUnitPrice"
           /\ Instr[2] = "setComputeUnitLimit"
C11_Witness == Built /\ txExecutor = "jito" /\ Len(Instr) > 0

\* C12: a buy swap holds exactly one idempotent create-token-account
\* instruction, placed before every inner swap instruction; a sell swap
\* holds none.
C12_CreateAtaOnlyInBuy ==
  Built =>
    IF swapCall.direction = "buy"
      THEN /\ Cardinality(Positions("createAssociatedTokenAccountIdempotent")) = 1
           /\ \A a \in Positions("createAssociatedTokenAccountIdempotent") :
                \A k \in Positions("swap") : a < k
      ELSE Positions("createAssociatedTokenAccountIdempotent") = {}
C12_Witness ==
  Built /\ swapCall.direction = "sell" /\ Cardinality(Positions("swap")) = MaxInner

\* C13: a sell swap ends with the close-account instruction for the input
\* token account; a buy swap holds no close-account instruction.
C13_CloseAccountOnlyInSell ==
  Built =>
    IF swapCall.direction = "sell"
      THEN Len(Instr) > 0 /\ Instr[Len(Instr)] = "closeAccount"
      ELSE Positions("closeAccount") = {}
C13_Witness ==
  Built /\ swapCall.direction = "buy" /\ txExecutor = "default" /\ Positions("swap") # {}

Enabled(c, k) ==
  CASE k = "market" -> c.cacheNewMarkets
    [] k = "pool" -> TRUE
    [] k = "cpmm" -> c.cpmm
    [] k = "wallet" -> c.autoSell

\* C15: when a call of stop() is over, the handle list is empty, and the
\* call has not raised, also when removing listeners failed.
C15_StopEmptiesListAndNeverRaises ==
  [][\A p \in Procs :
       (pc[p] \in {"x_stop", "st_stop"} /\ pc'[p] # pc[p]) =>
          subscriptions' = EmptyBag /\ pc'[p] # "threw"]_vars
C15_Witness ==
  \E p \in Procs :
    /\ kind[p] = "stop" /\ pc[p] = "done" /\ subscriptions = EmptyBag
    /\ \E k \in Kinds : orphans[k] > 0

C17_RestartFromStoredConfig ==
  /\ [][\A p \in Procs :
          (kind[p] # "restart" /\ kind'[p] = "restart" /\ CONFIG = NoConfig) =>
             /\ pc'[p] = "threw"
             /\ UNCHANGED <<subscriptions, orphans, CONFIG>>
             /\ TotalLive = 0]_vars
  /\ [](\A p \in Procs :
          (kind[p] = "restart" /\ pc[p] = "done" /\ ~faults) =>
             /\ CONFIG = ListenerConfig(cfg)
             /\ \A k \in Kinds :
                  /\ LiveCount(k) = (IF Enabled(cfg, k) THEN 1 ELSE 0)
                  /\ CopiesIn(Handle(k, TRUE), subscriptions) = LiveCount(k)
                  /\ CopiesIn(Handle(k, FALSE), subscriptions) = 0)
C17_Witness ==
  \E p \in Procs :
    /\ kind[p] = "restart" /\ pc[p] = "done" /\ ~faults
    /\ cfg.cacheNewMarkets /\ ~cfg.autoSell
    /\ LiveCount("market") = 1


\* ---- the avoid list and its file ----
\* C18: after add(a) the cache answers isInList(a), and so does a fresh
\* cache initialised from the file, whatever the file held before.
C18_AddedAddressSurvivesRestart ==
  avoidOp.op = "add" =>
    /\ IsInList(avoidOp.address)
    /\ InList(LoadAvoidList(avoidFile), avoidOp.address)

\* C19: add(a, note) for an address that is in the in-memory list changes
\* neither the file nor the list, whatever the note.
C19_AddIsIdempotent ==
  [][(avoidOp'.op = "add" /\ IsInList(avoidOp'.address)) =>
        UNCHANGED <<avoidList, avoidFile>>]_vars
C19_Witness ==
  /\ avoidOp.op = "add" /\ avoidOp.skipped
  /\ Len(SelectSeq(LoadAvoidList(avoidFile), LAMBDA e : e.address = avoidOp.address)) = 1

C21_ReloadFailureContained ==
  [][(avoidOp'.op = "load" /\ avoidOp'.failed) =>
        (~avoidOp'.threw /\ avoidList' = avoidList)]_vars

\* C22: add(a) appends the line and inserts the entry, or, when the append
\* fails, does neither.
C22_AddIsAtomic ==
  [][(avoidOp'.op = "add" /\ ~avoidOp'.skipped) =>
        IF avoidOp'.failed
          THEN UNCHANGED <<avoidList, avoidFile>>
          ELSE /\ Len(avoidList') = Len(avoidList) + 1
               /\ avoidList'[Len(avoidList')].address = avoidOp'.address
               /\ \E n \in FewNotes : avoidFile' = avoidFile \o Line(avoidOp'.address, n) \o <<NL>>]_vars


\* ---- the endpoint pool ----
\* C23: in a pool of two or more every refresh selects an index of the pool
\* other than the one selected before it, whatever refreshes and fallbacks
\* came before; in a pool of one every refresh selects index 0.
C23_RefreshChangesIndex ==
  [][(connPool' # connPool /\ connPool'.op = "refresh") =>
        /\ connPool'.lastIndex \in 0..(connPool.n - 1)
        /\ connPool'.connection = connPool'.lastIndex
        /\ IF connPool.n >= 2
             THEN connPool'.lastIndex # connPool.lastIndex
             ELSE connPool'.lastIndex = 0]_vars
C23_Witness ==
  /\ connPool.n = MaxEndpoints
  /\ connPool.op = "refresh" /\ connPool.before = "fallback"
  /\ connPool.connection = connPool.lastIndex

\* C24: the connection over which executeAndConfirm sends and confirms is
\* the one getConnection() of the pool returns at that moment.
C24_ExecutorUsesCurrentConnection ==
  executor.pc \in {"sending", "confirming"} => executor.used = executor.current

\* C25: once the transaction is sent, executeAndConfirm returns a result
\* and does not raise; confirmed is true iff the network reported the
\* inclusion without error, and false with the signature otherwise, also
\* when the blockhash expired; confirmation is only attempted after a
\* successful send.
C25_SentTransactionReturnsResult ==
  /\ executor.pc = "confirming" => executor.sent
  /\ (executor.sent /\ executor.pc \in {"returned", "threw"}) =>
       /\ executor.pc = "returned"
       /\ executor.signature
       /\ executor.confirmed <=> (executor.outcome = "included")


\* ---- the price watcher ----
\* C26: with priceCheckDuration = 0 or priceCheckInterval = 0 the watcher
\* returns without a pool-info fetch and without a sleep, and the sell goes
\* on to the swap attempts.
C26_ZeroKnobSkipsWatcher ==
  /\ []((priceCall.pc # "idle" /\ (priceCall.duration = 0 \/ priceCall.interval = 0)) =>
          /\ priceCall.pc \in {"returned", "swap"}
          /\ priceCall.fetches = 0 /\ priceCall.sleeps = 0)
  /\ [][priceCall.pc = "returned" => priceCall'.pc = "swap"]_vars
C26_Witness ==
  /\ priceCall.pc = "swap" /\ priceCall.duration > 0 /\ priceCall.interval = 0
  /\ priceCall.fetches = 0

\* C27: the watcher ends at the first quote strictly outside the targets,
\* with no fetch and no sleep after it; a trigger at iteration k is preceded
\* by exactly k-1 sleeps; a quote equal to a target does not trigger.
C27_TriggerAfterAllSleeps ==
  /\ priceCall.trigger > 0 =>
       /\ priceCall.pc \in {"returned", "swap"}
       /\ priceCall.fetches = priceCall.trigger
       /\ priceCall.amountOut < StopLossTarget \/ priceCall.amountOut > TakeProfitTarget
       /\ priceCall.sleeps = priceCall.trigger - 1
  /\ priceCall.pc = "sleep" =>
       /\ priceCall.trigger = 0
       /\ priceCall.amountOut >= StopLossTarget /\ priceCall.amountOut <= TakeProfitTarget

\* C28: for nonzero knobs the watcher makes at most
\* floor(priceCheckDuration / priceCheckInterval) pool-info fetches, also
\* when every iteration raises and when the duration is below the interval.
C28_FetchesBoundedByFloor ==
  (priceCall.duration > 0 /\ priceCall.interval > 0) =>
     priceCall.fetches <= priceCall.duration \div priceCall.interval


\* ---- the filter window ----
\* C29: filterMatch returns true exactly when the engine passes
\* consecutiveMatchCount times in a row: the counter is the length of the
\* run of passes that ends at the last evaluation (a pass adds one, a
\* failure resets it), the call returns true at the evaluation that
\* completes the first such run, with no evaluation after it, and it
\* returns false when the evaluations end without one.
C29_TrueExactlyOnConsecutivePasses ==
  LET h == filterCall.history
      c == filterCall.count
      m == filterCall.matchCount
      RunEndsAt(j) == j >= c /\ \A t \in (j - c + 1)..j : h[t]
  IN (filterCall.duration > 0 /\ filterCall.interval > 0) =>
       /\ filterCall.evals = Len(h) + (IF filterCall.pc = "eval" THEN 1 ELSE 0)
       /\ m <= Len(h)
       /\ \A t \in (Len(h) - m + 1)..Len(h) : h[t]
       /\ m < Len(h) => ~h[Len(h) - m]
       /\ \A j \in 1..(Len(h) - 1) : ~RunEndsAt(j)
       /\ filterCall.pc \in {"eval", "sleep"} => filterCall.result = "none"
       /\ filterCall.pc = "sleep" => ~RunEndsAt(Len(h))
       /\ filterCall.pc = "returned" =>
            /\ filterCall.result \in {"true", "false"}
            /\ filterCall.result = "true" <=> RunEndsAt(Len(h))
C29_Witness ==
  /\ filterCall.pc = "returned" /\ filterCall.result = "true"
  /\ filterCall.count = 2 /\ filterCall.history = <<TRUE, FALSE, TRUE, TRUE>>

\* C30: for positive knobs filterMatch evaluates the engine at most
\* filterCheckDuration / filterCheckInterval times, also when the duration
\* is not a multiple of the interval or is smaller than it.
C30_EvaluationsBoundedByQuotient ==
  (filterCall.duration > 0 /\ filterCall.interval > 0) =>
     filterCall.evals * filterCall.interval <= filterCall.duration


\* C31: with filterCheckInterval = 0 or filterCheckDuration = 0 filterMatch
\* returns true without an evaluation of the engine and without a sleep,
\* whatever consecutiveMatchCount is.
C31_ZeroKnobBypassesEngine ==
  (filterCall.pc # "idle" /\ (filterCall.interval = 0 \/ filterCall.duration = 0)) =>
     /\ filterCall.pc = "returned" /\ filterCall.result = "true"
     /\ filterCall.evals = 0 /\ filterCall.history = <<>>
     /\ filterCall.timesChecked = 0
C31_Witness ==
  /\ filterCall.pc = "returned" /\ filterCall.result = "true"
  /\ filterCall.interval = 0 /\ filterCall.duration > 0
  /\ filterCall.count = MaxMatch /\ filterCall.evals = 0


\* ---- the trade paths, continued ----
\* C32: with oneTokenAtATime, sellExecutionCount is the number of sells that
\* have entered and not yet run their finally block (so it is never negative
\* and is 0 when no sell is in progress); only a step of a sell changes it,
\* and the step in which a sell runs its finally block takes exactly one
\* from it; without oneTokenAtATime it stays 0.
C32_CountIsSellsInProgress ==
  /\ [](sellExecutionCount =
          IF cfg.oneTokenAtATime THEN Cardinality({p \in Procs : SellEntered(p)}) ELSE 0)
  /\ [][/\ sellExecutionCount' # sellExecutionCount =>
             \E p \in Procs : pc'[p] # pc[p] /\ kind'[p] = "sell"
        /\ \A p \in Procs :
             (cfg.oneTokenAtATime /\ SellEntered(p) /\ pc'[p] \notin SellPcs) =>
                sellExecutionCount' = sellExecutionCount - 1]_vars
\* a sell that found no pool has returned and the count is back at 0, while
\* a buy that read the count during the sell was abandoned
C32_Witness ==
  \E p, q \in Procs :
    /\ cfg.oneTokenAtATime /\ sellExecutionCount = 0
    /\ kind[p] = "sell" /\ Returned(p) /\ outcomes[p] = <<>> /\ calledStart[p]
    /\ kind[q] = "buy" /\ Returned(q) /\ listenersStopped[q]


\* C33: with oneTokenAtATime a buy never waits on the trade mutex and does
\* not start to trade while a sell runs: a buy that finds the mutex locked
\* or sellExecutionCount > 0 at its check returns without a swap attempt,
\* and a buy that goes on to acquire the mutex finds it unlocked with
\* sellExecutionCount = 0 in the very step that takes it.
C33_BuyGateNeverWaits ==
  /\ [](cfg.oneTokenAtATime =>
          \A p \in Procs :
            /\ (kind[p] = "buy" /\ pc[p] = "b_acquire") =>
                  mutexLocked /\ \A q \in Procs \ {p} : ~InCritical(q)
            /\ (kind[p] = "buy" /\ pc[p] \in {"b_market", "b_filter", "b_swap", "b_log"}) =>
                  acquiredMutex[p]
            /\ (kind[p] = "buy" /\ Returned(p) /\ ~acquiredMutex[p]) =>
                  outcomes[p] = <<>> /\ releases[p] = 0)
  /\ [][cfg.oneTokenAtATime =>
          \A p \in Procs :
            (kind'[p] = "buy" /\ pc[p] \in {"idle", "b_sleep", "b_stop"} /\ pc'[p] # pc[p]) =>
               /\ pc'[p] = "b_acquire" =>
                    ~mutexLocked /\ sellExecutionCount = 0 /\ mutexLocked'
               /\ (pc[p] = "b_stop" /\ (mutexLocked \/ sellExecutionCount > 0)) =>
                    pc'[p] = "done" /\ UNCHANGED mutexLocked
               /\ (mutexLocked \/ sellExecutionCount > 0) =>
                    pc'[p] \in {"done", "b_sleep", "b_stop"}]_vars
\* during a sell, a buy that stopped the listeners was abandoned at the check
C33_Witness ==
  \E p, q \in Procs :
    /\ cfg.oneTokenAtATime /\ sellExecutionCount > 0
    /\ kind[p] = "sell" /\ SellEntered(p)
    /\ kind[q] = "buy" /\ Returned(q) /\ listenersStopped[q] /\ ~acquiredMutex[q]
    /\ outcomes[q] = <<>>


\* C34: a sell that ends because the pool of the mint is not in Pool Storage
\* or because the balance is zero makes no swap attempt, and with
\* oneTokenAtATime the step that ends it decrements sellExecutionCount and
\* calls listeners.start() when the sell had stopped the listeners.
C34_EarlySellExitCleansUp ==
  /\ [](\A p \in Procs :
          (kind[p] = "sell" /\ lastResult[p] \in {<<"pool", "missing">>, <<"pool", "zero">>}) =>
             /\ pc[p] \in {"st_stop", "st_sub", "done"}
             /\ outcomes[p] = <<>> /\ i[p] = 0
             /\ cfg.oneTokenAtATime => (calledStart[p] <=> listenersStopped[p])
             /\ ~cfg.oneTokenAtATime => ~calledStart[p])
  /\ [][\A p \in Procs :
          (/\ kind[p] = "sell" /\ pc[p] = "s_pool" /\ pc'[p] # "s_pool"
           /\ lastResult'[p] \in {<<"pool", "missing">>, <<"pool", "zero">>}) =>
             /\ sellExecutionCount' =
                  sellExecutionCount - (IF cfg.oneTokenAtATime THEN 1 ELSE 0)
             /\ (cfg.oneTokenAtATime /\ listenersStopped[p]) =>
                  pc'[p] = "st_stop" /\ calledStart'[p]]_vars
\* a sell of an empty balance has returned: no swap, the count is back at 0
\* and the listeners it stopped were started again
C34_Witness ==
  \E p \in Procs :
    /\ cfg.oneTokenAtATime /\ kind[p] = "sell" /\ Returned(p)
    /\ lastResult[p] = <<"pool", "zero">> /\ outcomes[p] = <<>>
    /\ listenersStopped[p] /\ calledStart[p]
    /\ sellExecutionCount = 0 /\ "wallet" \in HeldLive


\* C35: a failed market fetch, or an exception of the filter engine, ends
\* the buy or the sell without a swap attempt and without a retry; the
\* invocation returns (it does not raise), and the cleanup has run: the
\* mutex released once if it was acquired, sellExecutionCount decremented,
\* listeners.start() called iff the invocation had stopped the listeners.
C35_LookupFailureAbandonsTrade ==
  /\ [](\A p \in Procs :
          (Trade(p) /\ lastResult[p] \in {<<"market", "error">>, <<"filter", "error">>}) =>
             /\ pc[p] \in {"st_stop", "st_sub", "done"}
             /\ outcomes[p] = <<>> /\ i[p] = 0
             /\ cfg.oneTokenAtATime => (calledStart[p] <=> listenersStopped[p])
             /\ ~cfg.oneTokenAtATime => ~calledStart[p]
             /\ kind[p] = "buy" =>
                  releases[p] = (IF cfg.oneTokenAtATime /\ acquiredMutex[p] THEN 1 ELSE 0))
  /\ [][\A p \in Procs :
          (/\ Trade(p) /\ pc[p] \in {"b_market", "b_filter", "s_market"}
           /\ lastResult'[p] \in {<<"market", "error">>, <<"filter", "error">>}) =>
             /\ pc'[p] \in {"st_stop", "done"}
             /\ kind[p] = "sell" =>
                  sellExecutionCount' =
                    sellExecutionCount - (IF cfg.oneTokenAtATime THEN 1 ELSE 0)
             /\ (kind[p] = "buy" /\ cfg.oneTokenAtATime /\ acquiredMutex[p]) =>
                  mutexLocked /\ ~mutexLocked']_vars
\* a buy whose filter engine raised and a sell whose market fetch failed
\* have both returned, the mutex free and the count at 0
C35_Witness ==
  \E p, q \in Procs :
    /\ cfg.oneTokenAtATime /\ ~mutexLocked /\ sellExecutionCount = 0
    /\ kind[p] = "buy" /\ Returned(p) /\ lastResult[p] = <<"filter", "error">>
    /\ acquiredMutex[p] /\ releases[p] = 1
    /\ kind[q] = "sell" /\ Returned(q) /\ lastResult[q] = <<"market", "error">>
    /\ calledStart[q]


\* C36: a pool event without a market id never leads to a market fetch, a
\* filter evaluation or a swap attempt; with oneTokenAtATime the buy that
\* reaches the no-market branch (it passed the check and acquired the mutex)
\* has released the mutex once and has called listeners.start() iff it had
\* stopped the listeners, when it returns.
C36_NoMarketNeverSwaps ==
  \A p \in Procs :
    (kind[p] = "buy" /\ ~hasMarket[p]) =>
       /\ pc[p] \notin {"b_market", "b_filter", "b_swap", "b_log"}
       /\ outcomes[p] = <<>> /\ lastResult[p] = NoResult
       /\ (cfg.oneTokenAtATime /\ acquiredMutex[p] /\ pc[p] # "b_acquire") =>
            /\ releases[p] = 1
            /\ calledStart[p] <=> listenersStopped[p]
       /\ ~cfg.oneTokenAtATime => releases[p] = 0 /\ ~calledStart[p]
\* a buy of a pool without market id acquired the mutex and returned from
\* the no-market branch: nothing was fetched or swapped, the mutex is free
C36_Witness ==
  \E p \in Procs :
    /\ cfg.oneTokenAtATime /\ cfg.cpmm /\ kind[p] = "buy" /\ Returned(p) /\ ~hasMarket[p]
    /\ acquiredMutex[p] /\ releases[p] = 1 /\ ~mutexLocked
    /\ ~listenersStopped[p] /\ ~calledStart[p]
    /\ outcomes[p] = <<>> /\ lastResult[p] = NoResult


\* C37: with useSnipeList the filter engine is never evaluated in a buy: a
\* pool whose base mint is in the allow list goes from the market fetch
\* straight to the swap attempts; without useSnipeList a swap is attempted
\* only after filterMatch returned true.
C37_FilterOnlyWithoutSnipeList ==
  /\ [](\A p \in Procs :
          kind[p] = "buy" =>
            /\ cfg.useSnipeList =>
                 /\ pc[p] # "b_filter" /\ lastResult[p][1] # "filter"
                 /\ (pc[p] \in BuyPcs \/ outcomes[p] # <<>>) => mint[p] \in snipeList
            /\ (~cfg.useSnipeList /\ (pc[p] \in {"b_swap", "b_log"} \/ outcomes[p] # <<>>)) =>
                 lastResult[p] = <<"filter", "match">>)
  /\ [][\A p \in Procs :
          (/\ kind[p] = "buy" /\ pc[p] = "b_market"
           /\ lastResult'[p] = <<"market", "ok">>) =>
             IF cfg.useSnipeList
               THEN IF cfg.maxBuyRetries > 0 THEN pc'[p] = "b_swap"
                                               ELSE pc'[p] \in {"st_stop", "done"}
               ELSE pc'[p] = "b_filter"]_vars
\* a pool of the allow list was bought without a filter evaluation
C37_Witness ==
  \E p \in Procs :
    /\ cfg.useSnipeList /\ kind[p] = "buy" /\ Returned(p) /\ mint[p] \in snipeList
    /\ lastResult[p] = <<"market", "ok">> /\ outcomes[p] = <<"confirmed">>


\* C38: without oneTokenAtATime the buy and sell paths never lock the trade
\* mutex, never call listeners.stop() or listeners.start() and never change
\* sellExecutionCount; buys and sells can be at their swaps together.
C38_IndependentWithoutOneToken ==
  /\ [](~cfg.oneTokenAtATime =>
          /\ ~mutexLocked /\ sellExecutionCount = 0
          /\ \A p \in Procs :
               Trade(p) =>
                 /\ ~acquiredMutex[p] /\ releases[p] = 0
                 /\ ~listenersStopped[p] /\ ~calledStart[p]
                 /\ pc[p] \notin {"b_stop", "s_stop", "b_acquire", "st_stop", "st_sub"})
  /\ [][(~cfg.oneTokenAtATime /\ \E p \in Procs : Trade(p)' /\ pc'[p] # pc[p]) =>
          UNCHANGED <<mutexLocked, sellExecutionCount, subscriptions, orphans, CONFIG,
                      stopClears, stopWaits, stopFailed, stQueue, stPend>>]_vars
\* a buy and a sell are at their swap calls at the same time
C38_Witness ==
  \E p, q \in Procs :
    /\ ~cfg.oneTokenAtATime
    /\ kind[p] = "buy" /\ pc[p] = "b_swap"
    /\ kind[q] = "sell" /\ pc[q] = "s_swap"


C40_PumpFunOkExactly ==
  pumpCall.pc = "returned" =>
    LET a == pumpCall.account
        r == pumpCall.result
    IN /\ ~r.raised
       /\ r.ok <=> /\ pumpCall.fetched /\ a.found /\ a.decodes
                   /\ \/ Includes(a.metadata.uri, PumpFunUri)
                      \/ EndsWith(a.metadata.mint, PumpSuffix)
                      \/ a.metadata.updateAuthority = PUMP_FUN_UPDATE_AUTHORITY
       /\ ~r.ok => r.message # NoMessage
\* ok = true on the suffix of the mint alone
C40_Witness ==
  /\ pumpCall.pc = "returned" /\ pumpCall.result.ok
  /\ pumpCall.account.metadata.mint = <<"A">> \o PumpSuffix
  /\ pumpCall.account.metadata.uri = SubSeq(PumpFunUri, 1, 7)
  /\ pumpCall.account.metadata.updateAuthority # PUMP_FUN_UPDATE_AUTHORITY

====
